---- MODULE Spec2Model ----
(***************************************************************************)
(* Model of blinker's Signal (Project/ants/libs/flask_package/blinker/     *)
(* base.py): the receiver registry with its two reverse indices, weak      *)
(* receivers and senders with their collection callbacks, dispatch,        *)
(* the muted() and connected_to() scopes.                                  *)
(***************************************************************************)
EXTENDS Integers, Sequences, FiniteSets, TLC

\* ---- bounds ----
NumReceivers == 2
NumSenders == 1
MaxArgs == 2
MaxMuteDepth == 2
MaxScopes == 1
MaxOps == 3
NumInstances == 1
NumFunctions == 1
NumCallbacks == 2
MaxRefs == 1
NumNames == 2
NumThreads == 2

\* ---- objects and identities ----
ANY_ID == 0
ANY == 1
NONE == 2
SenderObjs == 3..(2 + NumSenders)
EmptyListObj == 3 + NumSenders
\* a sender object that cannot be weakly referenced and can be destroyed: object()
PlainObj == 4 + NumSenders
ReceiverObjs == 1..NumReceivers
\* the objects behind the bound methods, and the on_delete callables
Instances == 1..NumInstances
Functions == 1..NumFunctions
Callbacks == 1..NumCallbacks
\* signal names, and the threads that call Namespace.signal
Names == 1..NumNames
Threads == 1..NumThreads

\* sender arguments accepted by connect/disconnect
SenderArgs == {ANY, NONE} \cup SenderObjs

\* blinker._utilities.hashable_identity: a distinct, stable key per object
hashable_identity(obj) == obj

\* blinker._utilities.reference raises TypeError for objects that cannot be
\* weakly referenced (None); the other senders are ordinary instances
WeakReferenceable(obj) == obj \in SenderObjs

\* inspect.iscoroutinefunction on a receiver
iscoroutinefunction(r) == r % 2 = 0

\* ---- dict helpers (dict / defaultdict(set) with explicit key sets) ----
DictGet(d, k) == IF k \in DOMAIN d THEN d[k] ELSE {}
DictPut(d, k, v) == [x \in DOMAIN d \cup {k} |-> IF x = k THEN v ELSE d[x]]
DictPop(d, k) == [x \in DOMAIN d \ {k} |-> d[x]]
DictTouch(d, k) == DictPut(d, k, DictGet(d, k))
EmptyDict == [x \in {} |-> {}]

VARIABLES
    receivers,      \* receiver_id -> "weak" | "strong"  (kind of the stored reference)
    by_sender,      \* sender_id -> set of receiver_ids
    by_receiver,    \* receiver_id -> set of sender_ids
    weak_senders,   \* set of sender_ids that have a weak reference with cleanup callback
    is_muted,
    debug,          \* __debug__ of the running interpreter (False under -O)
    watched,        \* the meta-signals that have receivers of their own
    ext,            \* receiver objects still referenced from outside the signal
    alive,          \* receiver objects not yet collected
    pendingCb,      \* collected receivers whose weakref callback has not run yet
    salive,         \* sender objects not yet collected
    spending,       \* collected senders whose weakref callback has not run yet
    muteStack,      \* is_muted as it was on entry of each open muted() scope
    scopes,         \* open connected_to scopes: <<receiver, sender>>
    pc,             \* "idle" | "iter": a send / send_async in progress
    cur,            \* the dispatch in progress
    ret,            \* outcome of the last call
    notified,       \* the meta-signals the last step has sent
    ops,            \* calls made so far
    \* _saferef.py
    ialive,         \* instances (im_self of the bound methods) not yet collected
    falive,         \* functions (im_func of the bound methods) not yet collected
    refobjs,        \* the BoundMethodWeakref objects made so far, in order of creation
    _all_instances, \* BoundMethodWeakref._all_instances: key -> index in refobjs
    \* Namespace / WeakNamespace
    weakns,         \* the namespace is a WeakNamespace
    ns,             \* the mapping: name -> NamedSignal object (objects are numbered as made)
    made,           \* NamedSignal objects constructed so far
    sigheld,        \* NamedSignal objects referenced by a caller of signal()
    sigalive,       \* NamedSignal objects not yet collected
    calls,          \* per thread: the signal(name) call it is in, and its last result
    \* a connect and a _cleanup_bookkeeping running in two threads
    cth,            \* the connecting thread
    kth,            \* the pruning thread
    \* identities (id() values) taken again by new objects
    palive,         \* PlainObj, or the object that took its identity, is not yet destroyed
    inherited       \* <<receiver_id, sender>>: connections made to a destroyed sender that
                    \* the bookkeeping still holds under the identity a new object took

vars == <<receivers, by_sender, by_receiver, weak_senders, is_muted, debug, watched,
          ext, alive, pendingCb, salive, spending, muteStack, scopes, pc, cur, ret,
          notified, ops, ialive, falive, refobjs, _all_instances,
          weakns, ns, made, sigheld, sigalive, calls, cth, kth, palive, inherited>>

regVars == <<receivers, by_sender, by_receiver, weak_senders>>
objVars == <<ext, alive, pendingCb, salive, spending>>
\* the state of the safe references, which no method of Signal touches
refVars == <<ialive, falive, refobjs, _all_instances>>
\* the state of the namespace and of the threads calling signal()
nsVars == <<weakns, ns, made, sigheld, sigalive, calls>>
\* the two threads working on one Signal
raceVars == <<cth, kth>>
\* the senders whose identity is taken again
idVars == <<palive, inherited>>
otherVars == <<refVars, nsVars, raceVars, idVars>>

Reg == [receivers |-> receivers, by_sender |-> by_sender,
        by_receiver |-> by_receiver, weak_senders |-> weak_senders]

SetReg(reg) ==
    /\ receivers' = reg.receivers
    /\ by_sender' = reg.by_sender
    /\ by_receiver' = reg.by_receiver
    /\ weak_senders' = reg.weak_senders

\* ---- outcomes ----
NoRet == [k |-> "none", v |-> <<>>, s |-> {}]
Returned(seq) == [k |-> "list", v |-> seq, s |-> {}]
Yielded(set) == [k |-> "yielded", v |-> <<>>, s |-> set]
Answered(b) == [k |-> IF b THEN "True" ELSE "False", v |-> <<>>, s |-> {}]
Raised(e, seq) == [k |-> e, v |-> seq, s |-> {}]
\* a call made by the program; the model explores runs of at most MaxOps calls
Called == ops < MaxOps /\ ops' = ops + 1

NoCall == [sender |-> NONE, ids |-> {}, results |-> <<>>, async |-> FALSE, wrapper |-> FALSE,
           running |-> {}]

\* ---- the meta-signals sent by the methods ----
\* variant: _disconnect announces the removal as disconnect does
_disconnect_notifies_too == {"receiver_disconnected"}

\* lines 428-436: _disconnect sends nothing
_disconnect_notifies == {}

\* lines 420-426: disconnect calls _disconnect and then sends receiver_disconnected
\* when that signal has receivers
disconnect_notifies(heard) == _disconnect_notifies \cup (heard \cap {"receiver_disconnected"})

\* lines 167-183: connect sends receiver_connected (the signal's own and the
\* global one) when it has receivers
connect_notifies(heard) == heard \cap {"receiver_connected"}

\* ---- Signal._disconnect ----
\* variant: the full teardown forgets the sender buckets
_disconnect_keeps_buckets(reg, receiver_id, sender_id) ==
    IF sender_id = ANY_ID
    THEN [reg EXCEPT !.by_receiver = DictPop(@, receiver_id),
                     !.receivers = DictPop(@, receiver_id)]
    ELSE [reg EXCEPT
            !.by_sender = DictPut(@, sender_id, DictGet(@, sender_id) \ {receiver_id}),
            !.by_receiver = DictPut(@, receiver_id, DictGet(@, receiver_id) \ {sender_id})]

\* variant: the full teardown discards the receiver from the ANY bucket only
_disconnect_any_bucket_only(reg, receiver_id, sender_id) ==
    IF sender_id = ANY_ID
    THEN [reg EXCEPT
            !.by_receiver = DictPop(@, receiver_id),
            !.by_sender = IF ANY_ID \in DOMAIN @
                          THEN [@ EXCEPT ![ANY_ID] = @ \ {receiver_id}] ELSE @,
            !.receivers = DictPop(@, receiver_id)]
    ELSE [reg EXCEPT
            !.by_sender = DictPut(@, sender_id, DictGet(@, sender_id) \ {receiver_id}),
            !.by_receiver = DictPut(@, receiver_id, DictGet(@, receiver_id) \ {sender_id})]

\* variant: every disconnect is a full teardown
_disconnect_always_total(reg, receiver_id, sender_id) ==
    [reg EXCEPT
        !.by_receiver = DictPop(@, receiver_id),
        !.by_sender = [k \in DOMAIN @ |-> @[k] \ {receiver_id}],
        !.receivers = DictPop(@, receiver_id)]

_disconnect(reg, receiver_id, sender_id) ==
    IF sender_id = ANY_ID
    THEN LET popped == DictGet(reg.by_receiver, receiver_id)
         IN  [reg EXCEPT
                !.by_receiver = DictPop(@, receiver_id),
                !.by_sender = IF popped # {}
                              THEN [k \in DOMAIN @ |-> @[k] \ {receiver_id}]
                              ELSE @,
                !.receivers = DictPop(@, receiver_id)]
    ELSE [reg EXCEPT
            !.by_sender = DictPut(@, sender_id, DictGet(@, sender_id) \ {receiver_id}),
            !.by_receiver = DictPut(@, receiver_id, DictGet(@, receiver_id) \ {sender_id})]

\* sender_id as computed by connect and disconnect
sender_id_of(sender) == IF sender = ANY THEN ANY_ID ELSE hashable_identity(sender)

\* ---- Signal.connect, the registration part (lines 137-165) ----
\* variant: a weak_senders entry is made for every sender other than ANY
connect_tracks_every_sender(reg, receiver, sender, weak) ==
    LET receiver_id == hashable_identity(receiver)
        sender_id == sender_id_of(sender)
    IN  [reg EXCEPT
            !.receivers = IF receiver_id \in DOMAIN @ THEN @
                          ELSE DictPut(@, receiver_id, IF weak THEN "weak" ELSE "strong"),
            !.by_sender = DictPut(@, sender_id, DictGet(@, sender_id) \cup {receiver_id}),
            !.by_receiver = DictPut(@, receiver_id, DictGet(@, receiver_id) \cup {sender_id}),
            !.weak_senders = IF sender # ANY THEN @ \cup {sender_id} ELSE @]

\* variant: the reference of the latest connect replaces the stored one
connect_replaces_reference(reg, receiver, sender, weak) ==
    LET receiver_id == hashable_identity(receiver)
        sender_id == sender_id_of(sender)
    IN  [reg EXCEPT
            !.receivers = DictPut(@, receiver_id, IF weak THEN "weak" ELSE "strong"),
            !.by_sender = DictPut(@, sender_id, DictGet(@, sender_id) \cup {receiver_id}),
            !.by_receiver = DictPut(@, receiver_id, DictGet(@, receiver_id) \cup {sender_id}),
            !.weak_senders = IF sender # ANY /\ sender_id \notin @ /\ WeakReferenceable(sender)
                             THEN @ \cup {sender_id} ELSE @]

\* variant: line 153 is missing, the receiver's sender set is not updated
connect_one_index(reg, receiver, sender, weak) ==
    LET receiver_id == hashable_identity(receiver)
        sender_id == sender_id_of(sender)
    IN  [reg EXCEPT
            !.receivers = IF receiver_id \in DOMAIN @ THEN @
                          ELSE DictPut(@, receiver_id, IF weak THEN "weak" ELSE "strong"),
            !.by_sender = DictPut(@, sender_id, DictGet(@, sender_id) \cup {receiver_id}),
            !.weak_senders = IF sender # ANY /\ sender_id \notin @ /\ WeakReferenceable(sender)
                             THEN @ \cup {sender_id} ELSE @]

connect(reg, receiver, sender, weak) ==
    LET receiver_id == hashable_identity(receiver)
        sender_id == sender_id_of(sender)
    IN  [reg EXCEPT
            !.receivers = IF receiver_id \in DOMAIN @ THEN @
                          ELSE DictPut(@, receiver_id, IF weak THEN "weak" ELSE "strong"),
            !.by_sender = DictPut(@, sender_id, DictGet(@, sender_id) \cup {receiver_id}),
            !.by_receiver = DictPut(@, receiver_id, DictGet(@, receiver_id) \cup {sender_id}),
            !.weak_senders = IF sender # ANY /\ sender_id \notin @ /\ WeakReferenceable(sender)
                             THEN @ \cup {sender_id} ELSE @]

\* ---- Signal.disconnect, the registry part (lines 414-420) ----
disconnect(reg, receiver, sender) ==
    _disconnect(reg, hashable_identity(receiver), sender_id_of(sender))

\* ---- Signal._cleanup_receiver ----
\* variant: the callback does nothing
_cleanup_receiver_noop(reg, receiver_id) == reg

_cleanup_receiver(reg, receiver_id) == _disconnect(reg, receiver_id, ANY_ID)

\* ---- Signal._cleanup_sender ----
\* variant: the bucket is dropped but the receivers' sender sets are not edited
_cleanup_sender_bucket_only(reg, sender_id) ==
    [reg EXCEPT !.weak_senders = @ \ {sender_id},
                !.by_sender = DictPop(@, sender_id)]

_cleanup_sender(reg, sender_id) ==
    LET bucket == DictGet(reg.by_sender, sender_id)
    IN  [reg EXCEPT
            !.weak_senders = @ \ {sender_id},
            !.by_sender = DictPop(@, sender_id),
            !.by_receiver = [r \in DOMAIN @ \cup bucket |->
                                DictGet(@, r) \ (IF r \in bucket THEN {sender_id} ELSE {})]]

\* ---- Signal._cleanup_bookkeeping ----
\* variant: line 473 is missing, every bucket is popped
_cleanup_bookkeeping_pops_all(reg) ==
    [reg EXCEPT !.by_sender = EmptyDict, !.by_receiver = EmptyDict]

_cleanup_bookkeeping(reg) ==
    [reg EXCEPT
        !.by_sender = [k \in {x \in DOMAIN @ : @[x] # {}} |-> @[k]],
        !.by_receiver = [k \in {x \in DOMAIN @ : @[x] # {}} |-> @[k]]]

\* ---- Signal._clear_state ----
_clear_state(reg) ==
    [receivers |-> EmptyDict, by_sender |-> EmptyDict,
     by_receiver |-> EmptyDict, weak_senders |-> {}]

\* ---- Signal.receivers_for ----
\* lines 388-392: the ids to visit; reading _by_sender[ANY_ID] creates that key
receivers_for_ids(reg, sender) ==
    LET sender_id == hashable_identity(sender)
    IN  IF sender_id \in DOMAIN reg.by_sender
        THEN DictGet(reg.by_sender, ANY_ID) \cup reg.by_sender[sender_id]
        ELSE DictGet(reg.by_sender, ANY_ID)

receivers_for_open(reg) == [reg EXCEPT !.by_sender = DictTouch(@, ANY_ID)]

\* variant: a weak entry is yielded without being dereferenced
receivers_for_step_nocheck(reg, receiver_id, live) ==
    IF receiver_id \notin DOMAIN reg.receivers
    THEN [reg |-> reg, yield |-> FALSE]
    ELSE [reg |-> reg, yield |-> TRUE]

\* variant: the id taken from the bucket is used without looking at receivers
receivers_for_step_trusts_bucket(reg, receiver_id, live) ==
    IF receiver_id \in DOMAIN reg.receivers
          /\ reg.receivers[receiver_id] = "weak" /\ ~live[receiver_id]
    THEN [reg |-> _disconnect(reg, receiver_id, ANY_ID), yield |-> FALSE]
    ELSE [reg |-> reg, yield |-> TRUE]

\* lines 394-403: one turn of the loop for receiver_id; live[r] tells whether
\* dereferencing a weak reference to r still gives the object
receivers_for_step(reg, receiver_id, live) ==
    IF receiver_id \notin DOMAIN reg.receivers
    THEN [reg |-> reg, yield |-> FALSE]
    ELSE IF reg.receivers[receiver_id] = "weak" /\ ~live[receiver_id]
    THEN [reg |-> _disconnect(reg, receiver_id, ANY_ID), yield |-> FALSE]
    ELSE [reg |-> reg, yield |-> TRUE]

RECURSIVE receivers_for_loop(_, _, _, _)
receivers_for_loop(reg, ids, live, acc) ==
    IF ids = {} THEN [reg |-> reg, yielded |-> acc]
    ELSE LET receiver_id == CHOOSE x \in ids : TRUE
             step == receivers_for_step(reg, receiver_id, live)
         IN  receivers_for_loop(step.reg, ids \ {receiver_id}, live,
                                IF step.yield THEN acc \cup {receiver_id} ELSE acc)

\* variant: the body of receivers_for runs on an empty registry too
receivers_for_guard_always(reg) == TRUE

\* line 387: if self.receivers
receivers_for_guard(reg) == DOMAIN reg.receivers # {}

\* the generator run to exhaustion: list(signal.receivers_for(sender))
receivers_for(reg, sender, live) ==
    IF receivers_for_guard(reg)
    THEN receivers_for_loop(receivers_for_open(reg), receivers_for_ids(reg, sender), live, {})
    ELSE [reg |-> reg, yielded |-> {}]

\* ---- Signal.has_receivers_for ----
\* variant: line 380 answers False, only the bucket of ANY is looked at
has_receivers_for_any_only(reg, sender) ==
    IF DOMAIN reg.receivers = {} THEN [reg |-> reg, result |-> FALSE]
    ELSE LET reg1 == receivers_for_open(reg)
         IN  [reg |-> reg1, result |-> reg1.by_sender[ANY_ID] # {}]

has_receivers_for(reg, sender) ==
    IF DOMAIN reg.receivers = {} THEN [reg |-> reg, result |-> FALSE]
    ELSE LET reg1 == receivers_for_open(reg)
         IN  IF reg1.by_sender[ANY_ID] # {} THEN [reg |-> reg1, result |-> TRUE]
             ELSE IF sender = ANY THEN [reg |-> reg1, result |-> FALSE]
             ELSE [reg |-> reg1, result |-> hashable_identity(sender) \in DOMAIN reg1.by_sender]

\* ---- Signal._extract_sender ----
\* variant: with receivers connected the first positional argument is taken
\* without looking at the others
_extract_sender_first(reg, dbg, args) ==
    IF DOMAIN reg.receivers = {}
    THEN IF dbg /\ Len(args) # 0 /\ Len(args) > 1
         THEN [raise |-> TRUE, sender |-> NONE]
         ELSE [raise |-> FALSE, sender |-> EmptyListObj]
    ELSE IF Len(args) = 0 THEN [raise |-> FALSE, sender |-> NONE]
    ELSE [raise |-> FALSE, sender |-> args[1]]

\* "TypeError" or the sender object; on a signal without receivers the method
\* returns an empty list in place of the sender
_extract_sender(reg, dbg, args) ==
    IF DOMAIN reg.receivers = {}
    THEN IF dbg /\ Len(args) # 0 /\ Len(args) > 1
         THEN [raise |-> TRUE, sender |-> NONE]
         ELSE [raise |-> FALSE, sender |-> EmptyListObj]
    ELSE IF Len(args) = 0 THEN [raise |-> FALSE, sender |-> NONE]
    ELSE IF Len(args) > 1 THEN [raise |-> TRUE, sender |-> NONE]
    ELSE [raise |-> FALSE, sender |-> args[1]]

\* ---- state of the objects around the signal ----
StronglyHeld(r) ==
    \/ r \in DOMAIN receivers /\ receivers[r] = "strong"
    \/ \E sc \in scopes : sc[1] = r

Usable(sender) == sender \in SenderObjs => salive[sender]
Callable(r) == alive[r] /\ ext[r]
MetaOutcomes == {"ok", "TypeError", "Exception"}
\* positional arguments of send: none, one sender, or the same sender several times
ArgTuples == {[i \in 1..n |-> s] : n \in 0..MaxArgs, s \in {NONE} \cup SenderObjs}

MetaSignals == {"receiver_connected", "receiver_disconnected"}

\* a NamedSignal is <<serial number, name>>; NoSignal: no object
NoSignal == <<0, 0>>
IdleCall == [pc |-> "idle", name |-> 0, obj |-> NoSignal, res |-> NoSignal]
\* no connect is running in the connecting thread
IdleConnect == [pc |-> "idle", receiver |-> 0, sender |-> 0, orphan |-> FALSE,
                stale_pair |-> FALSE, lost |-> FALSE]
\* no _cleanup_bookkeeping is running in the pruning thread
IdleCleanup == [pc |-> "idle", todo |-> {}, at |-> {}, stale |-> FALSE]

\* dbg: __debug__; heard: the meta-signals something is connected to; weak: the
\* namespace is a WeakNamespace
InitAll(dbg, heard, weak) ==
    /\ weakns = weak
    /\ ns = EmptyDict
    /\ made = 0
    /\ sigheld = {}
    /\ sigalive = {}
    /\ calls = [t \in Threads |-> IdleCall]
    /\ cth = IdleConnect
    /\ palive = TRUE
    /\ inherited = {}
    /\ kth = IdleCleanup
    /\ receivers = EmptyDict
    /\ by_sender = EmptyDict
    /\ by_receiver = EmptyDict
    /\ weak_senders = {}
    /\ is_muted = FALSE
    /\ debug = dbg
    /\ watched = heard
    /\ ext = [r \in ReceiverObjs |-> TRUE]
    /\ alive = [r \in ReceiverObjs |-> TRUE]
    /\ pendingCb = {}
    /\ salive = [s \in SenderObjs |-> TRUE]
    /\ spending = {}
    /\ muteStack = <<>>
    /\ scopes = {}
    /\ pc = "idle"
    /\ cur = NoCall
    /\ ret = NoRet
    /\ ialive = [i \in Instances |-> TRUE]
    /\ falive = [f \in Functions |-> TRUE]
    /\ refobjs = <<>>
    /\ _all_instances = EmptyDict
    /\ notified = {}
    /\ ops = 0

InitWith(dbg, heard) == InitAll(dbg, heard, FALSE)

\* the interpreter runs with or without -O
Init == \E dbg \in BOOLEAN, heard \in SUBSET MetaSignals : InitWith(dbg, heard)

\* ---- Signal.connect: registration, then the receiver_connected broadcast ----
\* meta: what the receivers of the two receiver_connected signals do
ConnectEffect(receiver, sender, weak, meta) ==
    LET reg1 == connect(Reg, receiver, sender, weak)
    IN  /\ meta # "ok" => "receiver_connected" \in watched
        /\ IF meta = "TypeError"
           THEN /\ ret' = Raised("TypeError", <<>>)
                /\ notified' = connect_notifies(watched) \cup disconnect_notifies(watched)
                /\ SetReg(disconnect(reg1, receiver, sender))
           ELSE /\ ret' = IF meta = "ok" THEN NoRet ELSE Raised("Exception", <<>>)
                /\ notified' = connect_notifies(watched)
                /\ SetReg(reg1)

Connect(receiver, sender, weak, meta) ==
    /\ Called
    /\ Callable(receiver) /\ Usable(sender)
    /\ ConnectEffect(receiver, sender, weak, meta)
    /\ UNCHANGED <<is_muted, debug, watched, otherVars, objVars, muteStack, scopes, pc, cur>>

\* ---- Signal.disconnect: _disconnect, then the receiver_disconnected broadcast ----
Disconnect(receiver, sender, meta) ==
    /\ Called
    /\ Callable(receiver) /\ Usable(sender)
    /\ meta # "ok" => "receiver_disconnected" \in watched
    /\ ret' = IF meta = "ok" THEN NoRet ELSE Raised(meta, <<>>)
    /\ notified' = disconnect_notifies(watched)
    /\ SetReg(disconnect(Reg, receiver, sender))
    /\ UNCHANGED <<is_muted, debug, watched, otherVars, objVars, muteStack, scopes, pc, cur>>

\* ---- Signal.connected_to ----
EnterConnectedTo(receiver, sender, meta) ==
    /\ Called
    /\ Cardinality(scopes) < MaxScopes
    /\ Callable(receiver) /\ Usable(sender)
    /\ scopes' = IF meta = "ok" THEN scopes \cup {<<receiver, sender>>} ELSE scopes
    /\ ConnectEffect(receiver, sender, FALSE, meta)
    /\ UNCHANGED <<is_muted, debug, watched, otherVars, objVars, muteStack, pc, cur>>

\* variant: no finally clause, a block that raises skips the disconnect
connected_to_exit_nofinally(reg, receiver, exc) ==
    IF exc THEN reg ELSE disconnect(reg, receiver, ANY)

\* lines 240-243: what leaving the block does to the registry; exc: the block raised
connected_to_exit(reg, receiver, exc) == disconnect(reg, receiver, ANY)

\* the block ends, normally or by an exception (exc), and the finally clause runs;
\* meta: what the receivers of receiver_disconnected do
ExitConnectedTo(sc, exc, meta) ==
    /\ UNCHANGED ops
    /\ sc \in scopes
    /\ meta # "ok" => "receiver_disconnected" \in watched
    /\ scopes' = scopes \ {sc}
    /\ ret' = IF meta = "ok" /\ ~exc THEN NoRet ELSE Raised("Exception", <<>>)
    /\ notified' = disconnect_notifies(watched)
    /\ SetReg(connected_to_exit(Reg, sc[1], exc))
    /\ UNCHANGED <<is_muted, debug, watched, otherVars, objVars, muteStack, pc, cur>>

\* ---- Signal.muted ----
EnterMuted ==
    /\ UNCHANGED ops
    /\ Len(muteStack) < MaxMuteDepth
    /\ muteStack' = Append(muteStack, is_muted)
    /\ is_muted' = TRUE
    /\ ret' = NoRet
    /\ notified' = {}
    /\ UNCHANGED <<regVars, debug, watched, otherVars, objVars, scopes, pc, cur>>

muted_exit(flag, saved) == FALSE

\* the finally clause: runs when the block completes and when it raises
ExitMuted ==
    /\ UNCHANGED ops
    /\ muteStack # <<>>
    /\ is_muted' = muted_exit(is_muted, muteStack[Len(muteStack)])
    /\ muteStack' = SubSeq(muteStack, 1, Len(muteStack) - 1)
    /\ ret' = NoRet
    /\ notified' = {}
    /\ UNCHANGED <<regVars, debug, watched, otherVars, objVars, scopes, pc, cur>>

\* ---- Signal.send / Signal.send_async ----
\* async: send_async rather than send; wrapper: _async_wrapper / _sync_wrapper given
SendBegin(args, async, wrapper) ==
    /\ Called
    /\ pc = "idle"
    /\ \A i \in 1..Len(args) : Usable(args[i])
    /\ IF is_muted
       THEN /\ ret' = Returned(<<>>)
            /\ UNCHANGED <<regVars, pc, cur>>
       ELSE LET ex == _extract_sender(Reg, debug, args)
            IN  IF ex.raise
                THEN /\ ret' = Raised("TypeError", <<>>)
                     /\ UNCHANGED <<regVars, pc, cur>>
                ELSE IF ~receivers_for_guard(Reg)
                THEN /\ ret' = Returned(<<>>)
                     /\ UNCHANGED <<regVars, pc, cur>>
                ELSE /\ SetReg(receivers_for_open(Reg))
                     /\ pc' = "iter"
                     /\ cur' = [sender |-> ex.sender,
                                ids |-> receivers_for_ids(Reg, ex.sender),
                                results |-> <<>>, async |-> async, wrapper |-> wrapper,
                                running |-> {}]
                     /\ ret' = NoRet
    /\ notified' = {}
    /\ UNCHANGED <<is_muted, debug, watched, otherVars, objVars, muteStack, scopes>>

\* variant: a receiver that raises is passed over and the loop goes on
receiver_raised_isolated(c, receiver_id) ==
    [pc |-> "iter",
     cur |-> [c EXCEPT !.ids = @ \ {receiver_id}, !.running = @ \ {receiver_id}],
     ret |-> NoRet]

\* lines 307 and 339: the exception of a receiver leaves send / send_async at
\* once; ret.v lists the receivers invoked by the call
receiver_raised(c, receiver_id) ==
    [pc |-> "idle", cur |-> NoCall,
     ret |-> Raised("Exception", Append(c.results, receiver_id))]

\* variant: a receiver of the wrong kind is skipped when no wrapper was given
unwrapped_skipped(c, receiver_id) ==
    [pc |-> "iter", cur |-> [c EXCEPT !.ids = @ \ {receiver_id}], ret |-> NoRet]

\* lines 303-305 and 335-337: a receiver of the wrong kind and no wrapper
unwrapped(c, receiver_id) ==
    [pc |-> "idle", cur |-> NoCall, ret |-> Raised("RuntimeError", c.results)]

\* lines 303 and 335: the receiver is not of the kind the method calls directly
misfit(c, receiver_id) ==
    IF c.async THEN ~iscoroutinefunction(receiver_id) ELSE iscoroutinefunction(receiver_id)

\* variant: the loop goes on while awaitables are in progress
loop_resumed_always(c) == TRUE

\* line 339: send_async is suspended in await until the receiver has completed,
\* and only then takes the next receiver from receivers_for
loop_resumed(c) == c.running = {}

\* variant: the loop does not move past the id it has just visited
for_next_stays(ids, receiver_id) == ids

\* line 394: for receiver_id in ids, the ids left once receiver_id is taken;
\* ids is a set, each id comes once
for_next(ids, receiver_id) == ids \ {receiver_id}

\* one turn of the loop over receivers_for. send calls the receiver (raises: it
\* raises); send_async calls it and awaits what it returned
SendStep(receiver_id, raises) ==
    /\ UNCHANGED ops
    /\ pc = "iter"
    /\ loop_resumed(cur)
    /\ receiver_id \in cur.ids
    /\ LET step == receivers_for_step(Reg, receiver_id, alive)
           out == IF ~step.yield
                  THEN [pc |-> pc, cur |-> [cur EXCEPT !.ids = for_next(@, receiver_id)], ret |-> NoRet]
                  ELSE IF misfit(cur, receiver_id) /\ ~cur.wrapper
                  THEN unwrapped(cur, receiver_id)
                  ELSE IF cur.async
                  THEN [pc |-> pc,
                        cur |-> [cur EXCEPT !.ids = for_next(@, receiver_id),
                                            !.running = @ \cup {receiver_id}],
                        ret |-> NoRet]
                  ELSE IF raises
                  THEN receiver_raised(cur, receiver_id)
                  ELSE [pc |-> pc,
                        cur |-> [cur EXCEPT !.ids = for_next(@, receiver_id),
                                            !.results = Append(@, receiver_id)],
                        ret |-> NoRet]
       IN  /\ raises => step.yield /\ ~cur.async /\ ~(misfit(cur, receiver_id) /\ ~cur.wrapper)
           /\ SetReg(step.reg)
           /\ notified' = IF step.reg # Reg THEN _disconnect_notifies ELSE {}
           /\ pc' = out.pc
           /\ cur' = out.cur
           /\ ret' = out.ret
    /\ UNCHANGED <<is_muted, debug, watched, otherVars, objVars, muteStack, scopes>>

\* line 339: the awaited receiver completes (raises: with an exception)
SendAwait(receiver_id, raises) ==
    /\ UNCHANGED ops
    /\ pc = "iter"
    /\ receiver_id \in cur.running
    /\ LET out == IF raises
                  THEN receiver_raised(cur, receiver_id)
                  ELSE [pc |-> pc,
                        cur |-> [cur EXCEPT !.running = @ \ {receiver_id},
                                            !.results = Append(@, receiver_id)],
                        ret |-> NoRet]
       IN  /\ pc' = out.pc
           /\ cur' = out.cur
           /\ ret' = out.ret
    /\ notified' = {}
    /\ UNCHANGED <<regVars, is_muted, debug, watched, otherVars, objVars, muteStack, scopes>>

SendEnd ==
    /\ UNCHANGED ops
    /\ pc = "iter"
    /\ cur.ids = {}
    /\ cur.running = {}
    /\ pc' = "idle"
    /\ cur' = NoCall
    /\ ret' = Returned(cur.results)
    /\ notified' = {}
    /\ UNCHANGED <<regVars, is_muted, debug, watched, otherVars, objVars, muteStack, scopes>>

\* ---- list(signal.receivers_for(sender)) ----
ReceiversForCall(sender) ==
    /\ Called
    /\ Usable(sender)
    /\ LET out == receivers_for(Reg, sender, alive)
       IN  /\ SetReg(out.reg) /\ ret' = Yielded(out.yielded)
           /\ notified' = IF DOMAIN out.reg.receivers # DOMAIN receivers
                          THEN _disconnect_notifies ELSE {}
    /\ UNCHANGED <<is_muted, debug, watched, otherVars, objVars, muteStack, scopes, pc, cur>>

HasReceiversForCall(sender) ==
    /\ Called
    /\ Usable(sender)
    /\ LET out == has_receivers_for(Reg, sender)
       IN  SetReg(out.reg) /\ ret' = Answered(out.result) /\ notified' = {}
    /\ UNCHANGED <<is_muted, debug, watched, otherVars, objVars, muteStack, scopes, pc, cur>>

CleanupBookkeeping ==
    /\ Called
    /\ ret' = NoRet
    /\ notified' = {}
    /\ SetReg(_cleanup_bookkeeping(Reg))
    /\ UNCHANGED <<is_muted, debug, watched, otherVars, objVars, muteStack, scopes, pc, cur>>

ClearState ==
    /\ Called
    /\ ret' = NoRet
    /\ notified' = {}
    /\ SetReg(_clear_state(Reg))
    /\ UNCHANGED <<is_muted, debug, watched, otherVars, objVars, muteStack, scopes, pc, cur>>

\* ---- object lifetime: the runtime's weak references ----
DropRefs(r) ==
    /\ Called
    /\ alive[r] /\ ext[r]
    /\ ext' = [ext EXCEPT ![r] = FALSE]
    /\ ret' = NoRet
    /\ notified' = {}
    /\ UNCHANGED <<regVars, is_muted, debug, watched, otherVars, alive, pendingCb, salive, spending,
                   muteStack, scopes, pc, cur>>

\* the receiver object is reclaimed; weak references to it are cleared and the
\* callback of the reference stored in receivers is scheduled
Collect(r) ==
    /\ UNCHANGED ops
    /\ alive[r] /\ ~ext[r] /\ ~StronglyHeld(r)
    /\ alive' = [alive EXCEPT ![r] = FALSE]
    /\ pendingCb' = IF r \in DOMAIN receivers THEN pendingCb \cup {r} ELSE pendingCb
    /\ ret' = NoRet
    /\ notified' = {}
    /\ UNCHANGED <<regVars, is_muted, debug, watched, otherVars, ext, salive, spending,
                   muteStack, scopes, pc, cur>>

CleanupReceiver(r) ==
    /\ UNCHANGED ops
    /\ r \in pendingCb
    /\ SetReg(_cleanup_receiver(Reg, hashable_identity(r)))
    /\ pendingCb' = pendingCb \ {r}
    /\ ret' = NoRet
    /\ notified' = _disconnect_notifies
    /\ UNCHANGED <<is_muted, debug, watched, otherVars, ext, alive, salive, spending,
                   muteStack, scopes, pc, cur>>

SenderCollect(s) ==
    /\ Called
    /\ salive[s]
    /\ ~(pc = "iter" /\ cur.sender = s)
    /\ \A sc \in scopes : sc[2] # s
    /\ salive' = [salive EXCEPT ![s] = FALSE]
    /\ spending' = IF hashable_identity(s) \in weak_senders THEN spending \cup {s} ELSE spending
    /\ ret' = NoRet
    /\ notified' = {}
    /\ UNCHANGED <<regVars, is_muted, debug, watched, otherVars, ext, alive, pendingCb,
                   muteStack, scopes, pc, cur>>

CleanupSender(s) ==
    /\ UNCHANGED ops
    /\ s \in spending
    /\ SetReg(_cleanup_sender(Reg, hashable_identity(s)))
    /\ spending' = spending \ {s}
    /\ ret' = NoRet
    /\ notified' = {}
    /\ UNCHANGED <<is_muted, debug, watched, otherVars, ext, alive, pendingCb, salive,
                   muteStack, scopes, pc, cur>>

\* ==== _saferef.py: safe references to bound methods ====
\* a bound method is <<im_self, im_func>>; id() of an object is the object
sigVars == <<regVars, is_muted, debug, watched, objVars, muteStack, scopes, pc, cur, notified,
            idVars>>

\* on_delete=None
NoneCb == 0
\* callable(function), lines 61 and 162
callable(function) == function \in Callbacks

BoundMethods == Instances \X Functions

\* lines 183-190
calculate_key(target) == <<target[1], target[2]>>

\* a BoundMethodWeakref as object.__new__ makes it (line 130); given: the
\* on_delete of every request, fired: the callbacks remove has called, removes:
\* the runs of remove, escaped: an exception has left remove
BlankRef == [key |-> <<0, 0>>, deletion_methods |-> <<>>, held |-> FALSE, live |-> TRUE,
             given |-> <<>>, fired |-> <<>>, removes |-> 0, escaped |-> FALSE]

\* the safe references and the class attribute _all_instances
Refs == [refobjs |-> refobjs, all |-> _all_instances]

SetRefs(st) ==
    /\ refobjs' = st.refobjs
    /\ _all_instances' = st.all

\* lines 174-179: __init__ sets the deletion list and the key, and makes the two
\* weak references (to the objects the key names)
__init__(st, self, target, on_delete) ==
    [st EXCEPT !.refobjs[self].deletion_methods = <<on_delete>>,
               !.refobjs[self].key = calculate_key(target)]

\* variant: every request makes a reference of its own
__new__without_lookup(st, target, on_delete) ==
    LET key == calculate_key(target)
        base == Len(st.refobjs) + 1
        st1 == [refobjs |-> Append(st.refobjs, BlankRef), all |-> DictPut(st.all, key, base)]
    IN  [st |-> __init__(st1, base, target, on_delete), obj |-> base]

\* lines 124-133
__new__(st, target, on_delete) ==
    LET key == calculate_key(target)
        current == IF key \in DOMAIN st.all THEN st.all[key] ELSE 0
        base == Len(st.refobjs) + 1
        st1 == [refobjs |-> Append(st.refobjs, BlankRef), all |-> DictPut(st.all, key, base)]
    IN  IF current # 0
        THEN [st |-> [st EXCEPT !.refobjs[current].deletion_methods = Append(@, on_delete)],
              obj |-> current]
        ELSE [st |-> __init__(st1, base, target, on_delete), obj |-> base]

\* line 73, BoundMethodWeakref(target=target, on_delete=on_delete): calling the
\* class runs __new__ and then, the result being an instance of the class,
\* __init__ on what __new__ returned
safe_ref(st, target, on_delete) ==
    LET built == __new__(st, target, on_delete)
    IN  [st |-> __init__(built.st, built.obj, target, on_delete), obj |-> built.obj]

\* lines 160-172: the loop of remove over the copied list, from position i on;
\* raising: the callbacks that raise an Exception when they are called
RECURSIVE chain(_, _, _)

\* variant: the exception of a callback leaves remove
caught_reraised(methods, i, raising) ==
    [called |-> <<methods[i]>>, reported |-> {}, escaped |-> TRUE]

\* lines 164-172: the exception is printed and the loop goes on
caught(methods, i, raising) ==
    LET rest == chain(methods, i + 1, raising)
    IN  [called |-> <<methods[i]>> \o rest.called,
         reported |-> {i} \cup rest.reported,
         escaped |-> rest.escaped]

chain(methods, i, raising) ==
    IF i > Len(methods)
    THEN [called |-> <<>>, reported |-> {}, escaped |-> FALSE]
    ELSE IF ~callable(methods[i])
    THEN chain(methods, i + 1, raising)
    ELSE IF methods[i] \in raising
    THEN caught(methods, i, raising)
    ELSE LET rest == chain(methods, i + 1, raising)
         IN  [rest EXCEPT !.called = <<methods[i]>> \o @]

\* lines 152-172: the callback of weak_self and of weak_func
remove(st, self, raising) ==
    LET methods == st.refobjs[self].deletion_methods
        run == chain(methods, 1, raising)
    IN  [refobjs |-> [st.refobjs EXCEPT ![self].deletion_methods = <<>>,
                                        ![self].fired = @ \o run.called,
                                        ![self].removes = @ + 1,
                                        ![self].escaped = @ \/ run.escaped],
         all |-> DictPop(st.all, st.refobjs[self].key)]

\* the runtime calls the callback of every weak reference to a collected object
RECURSIVE cleared(_, _, _)
cleared(st, selves, raising) ==
    IF selves = {} THEN st
    ELSE LET self == CHOOSE x \in selves : \A y \in selves : x <= y
         IN  cleared(remove(st, self, raising), selves \ {self}, raising)

\* variant: only the instance is looked at
__call__instance_only(obj, ia, fa) ==
    IF ia[obj.key[1]] THEN obj.key ELSE <<>>

\* lines 225-230: the bound method <<target, function>>, or None (<<>>)
__call__(obj, ia, fa) ==
    IF ia[obj.key[1]]
    THEN IF fa[obj.key[2]] THEN obj.key ELSE <<>>
    ELSE <<>>

\* lines 209-213, for two BoundMethodWeakref objects
__eq__(self, other) == self.key = other.key

RefIds == 1..Len(refobjs)

\* safe_ref(target, on_delete) for a bound method of live objects; the caller
\* keeps what it gets
SafeRef(target, on_delete) ==
    /\ Called
    /\ ialive[target[1]] /\ falive[target[2]]
    /\ calculate_key(target) \notin DOMAIN _all_instances => Len(refobjs) < MaxRefs
    /\ LET built == safe_ref(Refs, target, on_delete)
       IN  /\ SetRefs([built.st EXCEPT !.refobjs[built.obj].held = TRUE,
                                      !.refobjs[built.obj].given = Append(@, on_delete)])
           /\ ret' = [k |-> "ref", v |-> <<built.obj>>, s |-> {}]
    /\ UNCHANGED <<sigVars, nsVars, raceVars, ialive, falive>>

\* lines 91-95: deletion_methods is an attribute of the reference; the holder
\* of a reference that is still valid appends a callable to it
AppendDeletionMethod(x, on_delete) ==
    /\ Called
    /\ x \in RefIds /\ refobjs[x].live /\ refobjs[x].held
    /\ __call__(refobjs[x], ialive, falive) # <<>>
    /\ refobjs' = [refobjs EXCEPT ![x].deletion_methods = Append(@, on_delete),
                                  ![x].given = Append(@, on_delete)]
    /\ ret' = NoRet
    /\ UNCHANGED <<sigVars, nsVars, raceVars, ialive, falive, _all_instances>>

\* reference(): the holder calls the reference
CallRef(x) ==
    /\ Called
    /\ x \in RefIds /\ refobjs[x].live /\ refobjs[x].held
    /\ LET target == __call__(refobjs[x], ialive, falive)
       IN  ret' = [k |-> IF target = <<>> THEN "None" ELSE "bound", v |-> target, s |-> {x}]
    /\ UNCHANGED <<sigVars, nsVars, raceVars, refVars>>

\* the holder lets go of the reference
ReleaseRef(x) ==
    /\ x \in RefIds /\ refobjs[x].live /\ refobjs[x].held
    /\ refobjs' = [refobjs EXCEPT ![x].held = FALSE]
    /\ ret' = NoRet
    /\ UNCHANGED <<sigVars, nsVars, raceVars, ops, ialive, falive, _all_instances>>

\* a reference nobody holds is collected (with its two weak references, whose
\* callbacks no longer run), and the WeakValueDictionary of line 111 loses it
CollectRef(x) ==
    /\ x \in RefIds /\ refobjs[x].live /\ ~refobjs[x].held
    /\ refobjs' = [refobjs EXCEPT ![x].live = FALSE]
    /\ _all_instances' = [k \in {k \in DOMAIN _all_instances : _all_instances[k] # x}
                             |-> _all_instances[k]]
    /\ ret' = NoRet
    /\ UNCHANGED <<sigVars, nsVars, raceVars, ops, ialive, falive>>

\* the references whose weak_self (part = 1) or weak_func (part = 2) is a live
\* weak reference to obj
Referring(part, obj) == {x \in RefIds : refobjs[x].live /\ refobjs[x].key[part] = obj}

\* the instance is collected: the weak_self of every reference to it is cleared
\* and its callback runs
InstanceCollect(i, raising) ==
    /\ ialive[i]
    /\ Referring(1, i) # {}
    /\ ialive' = [ialive EXCEPT ![i] = FALSE]
    /\ SetRefs(cleared(Refs, Referring(1, i), raising))
    /\ ret' = [k |-> "collected", v |-> <<>>, s |-> raising]
    /\ UNCHANGED <<sigVars, nsVars, raceVars, ops, falive>>

\* the function is collected: the weak_func of every reference to it is cleared
\* and its callback runs
FunctionCollect(f, raising) ==
    /\ falive[f]
    /\ Referring(2, f) # {}
    /\ falive' = [falive EXCEPT ![f] = FALSE]
    /\ SetRefs(cleared(Refs, Referring(2, f), raising))
    /\ ret' = [k |-> "collected", v |-> <<>>, s |-> raising]
    /\ UNCHANGED <<sigVars, nsVars, raceVars, ops, ialive>>

\* objects and callbacks are interchangeable: the runs that take them in order
\* of their numbers stand for all runs
UsedInstances == {refobjs[x].key[1] : x \in RefIds}
UsedFunctions == {refobjs[x].key[2] : x \in RefIds}
UsedCallbacks == {c \in Callbacks : \E x \in RefIds, n \in 1..MaxOps :
                                       n <= Len(refobjs[x].given) /\ refobjs[x].given[n] = c}
NextOf(S, used) == {x \in S : \A y \in S : y < x => y \in used}
\* the callbacks that the collection of an object calls
Chained(part, obj) ==
    {c \in Callbacks : \E x \in Referring(part, obj), n \in 1..MaxOps :
                          n <= Len(refobjs[x].deletion_methods)
                          /\ refobjs[x].deletion_methods[n] = c}

NextRef ==
    \/ \E i \in NextOf(Instances, UsedInstances), f \in NextOf(Functions, UsedFunctions),
          c \in NextOf(Callbacks, UsedCallbacks) \cup {NoneCb} : SafeRef(<<i, f>>, c)
    \/ \E x \in RefIds, c \in NextOf(Callbacks, UsedCallbacks) : AppendDeletionMethod(x, c)
    \/ \E x \in RefIds : CallRef(x)
    \/ \E x \in RefIds : ReleaseRef(x)
    \/ \E x \in RefIds : CollectRef(x)
    \/ \E i \in Instances : \E raising \in SUBSET Chained(1, i) : InstanceCollect(i, raising)
    \/ \E f \in Functions : \E raising \in SUBSET Chained(2, f) : FunctionCollect(f, raising)

SpecRef == InitWith(TRUE, {}) /\ [][NextRef]_vars

\* ==== base.py: Namespace and WeakNamespace ====
nsOther == <<regVars, is_muted, debug, watched, objVars, muteStack, scopes, pc, cur,
             notified, ret, refVars, raceVars, idVars>>

\* self[name] raises KeyError
KeyError == NoSignal

\* lines 528 and 552: self[name]; a WeakValueDictionary holds no collected value
getitem(d, name) == IF name \in DOMAIN d THEN d[name] ELSE KeyError

\* variant: the value passed always replaces the stored one
setdefault_replaces(d, name, default) ==
    [d |-> DictPut(d, name, default), result |-> default]

\* line 530: dict.setdefault, one operation of the dict
setdefault(d, name, default) ==
    IF name \in DOMAIN d
    THEN [d |-> d, result |-> d[name]]
    ELSE [d |-> DictPut(d, name, default), result |-> default]

\* variant: the entry of a collected signal stays in the mapping
forget_keeps_entry(d, obj) == d

\* line 534: the mapping is a WeakValueDictionary, which drops the entries of a
\* collected value
forget(d, obj) == [n \in {m \in DOMAIN d : d[m] # obj} |-> d[n]]

\* the objects a thread in the middle of a call refers to
InCall == {calls[t].obj : t \in Threads} \ {NoSignal}

\* signal() returns obj to its caller, which keeps it; the signal made by the
\* call, when it is not the one returned, is not referenced any more
Return(t, obj) ==
    /\ calls' = [calls EXCEPT ![t] = [pc |-> "idle", name |-> calls[t].name,
                                      obj |-> NoSignal, res |-> obj]]
    /\ sigheld' = sigheld \cup {obj}
    /\ sigalive' = IF calls[t].obj # obj THEN sigalive \ {calls[t].obj} ELSE sigalive

\* lines 527-528 and 551-552: a thread calls signal(name) and tries self[name]
SignalLookup(t, name) ==
    /\ Called
    /\ calls[t].pc = "idle"
    /\ IF getitem(ns, name) # KeyError
       THEN /\ calls' = [calls EXCEPT ![t] = [pc |-> "idle", name |-> name, obj |-> NoSignal,
                                              res |-> getitem(ns, name)]]
            /\ sigheld' = sigheld \cup {getitem(ns, name)}
       ELSE /\ calls' = [calls EXCEPT ![t] = [pc |-> "create", name |-> name, obj |-> NoSignal,
                                              res |-> NoSignal]]
            /\ UNCHANGED sigheld
    /\ UNCHANGED <<weakns, ns, made, sigalive, nsOther>>

\* lines 530 and 554, 507-511: NamedSignal(name, doc) is constructed
SignalCreate(t) ==
    /\ calls[t].pc = "create"
    /\ made' = made + 1
    /\ sigalive' = sigalive \cup {<<made + 1, calls[t].name>>}
    /\ calls' = [calls EXCEPT ![t].pc = "setdefault", ![t].obj = <<made + 1, calls[t].name>>]
    /\ UNCHANGED <<weakns, ns, sigheld, ops, nsOther>>

\* lines 530 and 554: self.setdefault(name, signal). dict.setdefault is one
\* operation; WeakValueDictionary.setdefault reads the entry here and, when there
\* is none, stores in a later step
SignalSetdefault(t) ==
    /\ calls[t].pc = "setdefault"
    /\ IF ~weakns
       THEN LET done == setdefault(ns, calls[t].name, calls[t].obj)
            IN  /\ ns' = done.d
                /\ Return(t, done.result)
       ELSE IF getitem(ns, calls[t].name) # KeyError
       THEN /\ Return(t, getitem(ns, calls[t].name))
            /\ UNCHANGED ns
       ELSE /\ calls' = [calls EXCEPT ![t].pc = "store"]
            /\ UNCHANGED <<ns, sigheld, sigalive>>
    /\ UNCHANGED <<weakns, made, ops, nsOther>>

\* WeakValueDictionary.setdefault: self.data[key] = KeyedRef(default, ...) and
\* return default
SignalStore(t) ==
    /\ calls[t].pc = "store"
    /\ ns' = DictPut(ns, calls[t].name, calls[t].obj)
    /\ Return(t, calls[t].obj)
    /\ UNCHANGED <<weakns, made, ops, nsOther>>

\* the callers that hold a signal let go of it
ReleaseSignal(obj) ==
    /\ obj \in sigheld
    /\ sigheld' = sigheld \ {obj}
    /\ UNCHANGED <<weakns, ns, made, sigalive, calls, ops, nsOther>>

\* a signal that only the WeakNamespace refers to is collected
CollectSignal(obj) ==
    /\ weakns
    /\ obj \in sigalive /\ obj \notin sigheld /\ obj \notin InCall
    /\ sigalive' = sigalive \ {obj}
    /\ ns' = forget(ns, obj)
    /\ UNCHANGED <<weakns, made, sigheld, calls, ops, nsOther>>

\* a Namespace used by several threads
NextNamespace ==
    \/ \E t \in Threads, name \in Names : SignalLookup(t, name)
    \/ \E t \in Threads : SignalCreate(t)
    \/ \E t \in Threads : SignalSetdefault(t)
    \/ \E obj \in sigheld : ReleaseSignal(obj)

SpecNamespace == InitAll(TRUE, {}, FALSE) /\ [][NextNamespace]_vars

\* a WeakNamespace used by one thread
MainThread == 1
NextWeakNamespace ==
    \/ \E name \in Names : SignalLookup(MainThread, name)
    \/ SignalCreate(MainThread)
    \/ SignalSetdefault(MainThread)
    \/ SignalStore(MainThread)
    \/ \E obj \in sigheld : ReleaseSignal(obj)
    \/ \E obj \in sigalive : CollectSignal(obj)

SpecWeakNamespace == InitAll(TRUE, {}, TRUE) /\ [][NextWeakNamespace]_vars

\* a Namespace or a WeakNamespace used by several threads
NextThreads ==
    \/ \E t \in Threads, name \in Names : SignalLookup(t, name)
    \/ \E t \in Threads : SignalCreate(t)
    \/ \E t \in Threads : SignalSetdefault(t)
    \/ \E t \in Threads : SignalStore(t)
    \/ \E obj \in sigheld : ReleaseSignal(obj)
    \/ \E obj \in sigalive : CollectSignal(obj)

SpecThreads == (\E weak \in BOOLEAN : InitAll(TRUE, {}, weak)) /\ [][NextThreads]_vars

\* ---- Signal.connect and Signal._cleanup_bookkeeping in two threads ----
\* The statements of lines 151-153 and of the loop of lines 471-474 are not
\* atomic: another thread may run between fetching a bucket and adding to it,
\* and between testing a bucket and popping its key.

\* line 151: self.receivers.setdefault(receiver_id, receiver_ref)
receivers_setdefault(rcv, receiver_id, weak) ==
    IF receiver_id \in DOMAIN rcv THEN rcv
    ELSE DictPut(rcv, receiver_id, IF weak THEN "weak" ELSE "strong")

\* lines 152, 153: mapping[id], a defaultdict(set) creates the missing bucket
bucket_fetch(mapping, id) == DictTouch(mapping, id)

\* variant: the bucket is looked up again when the member is added
bucket_add_refetch(mapping, id, member, orphan) ==
    DictPut(mapping, id, DictGet(mapping, id) \cup {member})

\* lines 152, 153: .add(member) on the set that was fetched; orphan: the key of
\* that set has been popped since, so the mapping does not see the set any more
bucket_add(mapping, id, member, orphan) ==
    IF orphan THEN mapping
    ELSE DictPut(mapping, id, mapping[id] \cup {member})

\* lines 155-165: the weak reference to the sender
connect_sender_ref(ws, sender) ==
    IF sender # ANY /\ sender_id_of(sender) \notin ws /\ WeakReferenceable(sender)
    THEN ws \cup {sender_id_of(sender)} ELSE ws

\* line 472: list(mapping.items())
items(mapping) == DOMAIN mapping

\* line 473: if not bucket
not_bucket(mapping, id) == DictGet(mapping, id) = {}

\* line 474: mapping.pop(_id, None)
pop(mapping, id) == DictPop(mapping, id)

raceOther == <<is_muted, debug, watched, objVars, muteStack, scopes, pc, cur, notified,
               refVars, nsVars, idVars>>

BothIdle == cth.pc = "idle" /\ kth.pc = "idle"

\* receivers and senders that were never used are interchangeable: the runs
\* that take the unused one of the lowest number stand for all runs
UsedReceivers == DOMAIN receivers \cup DOMAIN by_receiver
                    \cup (IF cth.pc = "idle" THEN {} ELSE {cth.receiver})
UsedSenders == (SenderObjs \cap (DOMAIN by_sender \cup weak_senders))
                    \cup (IF cth.pc = "idle" THEN {} ELSE {cth.sender} \cap SenderObjs)
RaceReceivers == UsedReceivers \cup NextOf(ReceiverObjs, UsedReceivers)
RaceSenders == {ANY, NONE} \cup UsedSenders \cup NextOf(SenderObjs, UsedSenders)

\* the connecting thread: connect(receiver, sender, weak) up to line 151
ConnectBegin(receiver, sender, weak) ==
    /\ cth.pc = "idle"
    /\ Called
    /\ Callable(receiver) /\ Usable(sender)
    /\ cth' = [pc |-> "l152", receiver |-> receiver, sender |-> sender, orphan |-> FALSE,
               stale_pair |-> /\ not_bucket(by_sender, sender_id_of(sender))
                              /\ sender_id_of(sender) \in DOMAIN by_sender
                              /\ not_bucket(by_receiver, hashable_identity(receiver))
                              /\ hashable_identity(receiver) \in DOMAIN by_receiver,
               lost |-> FALSE]
    /\ receivers' = receivers_setdefault(receivers, hashable_identity(receiver), weak)
    /\ UNCHANGED <<by_sender, by_receiver, weak_senders, kth, ret, raceOther>>

\* line 152, the subscription self._by_sender[sender_id]
ConnectFetchSender ==
    /\ cth.pc = "l152"
    /\ by_sender' = bucket_fetch(by_sender, sender_id_of(cth.sender))
    /\ cth' = [cth EXCEPT !.pc = "l152add", !.orphan = FALSE]
    /\ UNCHANGED <<receivers, by_receiver, weak_senders, kth, ret, raceOther, ops>>

\* line 152, the call of add
ConnectAddSender ==
    /\ cth.pc = "l152add"
    /\ by_sender' = bucket_add(by_sender, sender_id_of(cth.sender),
                               hashable_identity(cth.receiver), cth.orphan)
    /\ cth' = [cth EXCEPT !.pc = "l153", !.orphan = FALSE, !.lost = cth.orphan]
    /\ UNCHANGED <<receivers, by_receiver, weak_senders, kth, ret, raceOther, ops>>

\* line 153, the subscription self._by_receiver[receiver_id]
ConnectFetchReceiver ==
    /\ cth.pc = "l153"
    /\ by_receiver' = bucket_fetch(by_receiver, hashable_identity(cth.receiver))
    /\ cth' = [cth EXCEPT !.pc = "l153add", !.orphan = FALSE]
    /\ UNCHANGED <<receivers, by_sender, weak_senders, kth, ret, raceOther, ops>>

\* line 153, the call of add, and lines 154-184, the rest of connect, which
\* does not use the two mappings; nothing listens to receiver_connected
ConnectAddReceiver ==
    /\ cth.pc = "l153add"
    /\ by_receiver' = bucket_add(by_receiver, hashable_identity(cth.receiver),
                                 sender_id_of(cth.sender), cth.orphan)
    /\ weak_senders' = connect_sender_ref(weak_senders, cth.sender)
    /\ cth' = [cth EXCEPT !.pc = "done", !.orphan = FALSE]
    /\ ret' = NoRet
    /\ UNCHANGED <<receivers, by_sender, kth, raceOther, ops>>

\* the mapping the pruning thread is working on
Mapping == IF kth.pc = "by_sender" THEN by_sender ELSE by_receiver

\* the connecting thread holds the bucket of id in the mapping being pruned
Fetched(id) ==
    \/ kth.pc = "by_sender" /\ cth.pc = "l152add" /\ sender_id_of(cth.sender) = id
    \/ kth.pc = "by_receiver" /\ cth.pc = "l153add" /\ hashable_identity(cth.receiver) = id

\* lines 471-472: _cleanup_bookkeeping starts on self._by_sender
CleanupBegin ==
    /\ kth.pc = "idle"
    /\ Called
    /\ kth' = [pc |-> "by_sender", todo |-> items(by_sender), at |-> {}, stale |-> FALSE]
    /\ UNCHANGED <<regVars, cth, ret, raceOther>>

\* line 473 for the next item of the list. The list is in the order of
\* insertion, which the mappings above do not record: the items come in any order
CleanupTest(id) ==
    /\ kth.pc \in {"by_sender", "by_receiver"}
    /\ kth.at = {}
    /\ id \in kth.todo
    /\ kth' = [kth EXCEPT !.todo = @ \ {id},
                          !.at = IF not_bucket(Mapping, id) THEN {id} ELSE {}]
    /\ UNCHANGED <<regVars, cth, ret, raceOther, ops>>

\* line 474 for the item that was found empty
CleanupPop ==
    /\ kth.pc \in {"by_sender", "by_receiver"}
    /\ kth.at # {}
    /\ LET id == CHOOSE x \in kth.at : TRUE
       IN  /\ IF kth.pc = "by_sender"
              THEN by_sender' = pop(by_sender, id) /\ UNCHANGED by_receiver
              ELSE by_receiver' = pop(by_receiver, id) /\ UNCHANGED by_sender
           /\ kth' = [kth EXCEPT !.at = {},
                                 !.stale = @ \/ (kth.pc = "by_sender" /\ ~not_bucket(by_sender, id))]
           /\ cth' = IF Fetched(id) THEN [cth EXCEPT !.orphan = TRUE] ELSE cth
    /\ UNCHANGED <<receivers, weak_senders, ret, raceOther, ops>>

\* line 471: the list is exhausted, the next mapping or the end
CleanupNext ==
    /\ kth.pc \in {"by_sender", "by_receiver"}
    /\ kth.at = {} /\ kth.todo = {}
    /\ kth' = IF kth.pc = "by_sender"
              THEN [kth EXCEPT !.pc = "by_receiver", !.todo = items(by_receiver)]
              ELSE [kth EXCEPT !.pc = "done"]
    /\ UNCHANGED <<regVars, cth, ret, raceOther, ops>>

\* earlier calls made by one thread, then one connect and one
\* _cleanup_bookkeeping running in two threads
NextRace ==
    \/ \E r \in RaceReceivers, s \in RaceSenders, w \in BOOLEAN :
          BothIdle /\ Connect(r, s, w, "ok")
    \/ \E r \in RaceReceivers, s \in RaceSenders : BothIdle /\ Disconnect(r, s, "ok")
    \/ \E r \in RaceReceivers, s \in RaceSenders, w \in BOOLEAN : ConnectBegin(r, s, w)
    \/ ConnectFetchSender
    \/ ConnectAddSender
    \/ ConnectFetchReceiver
    \/ ConnectAddReceiver
    \/ CleanupBegin
    \/ \E id \in kth.todo : CleanupTest(id)
    \/ CleanupPop
    \/ CleanupNext

SpecRace == InitWith(TRUE, {}) /\ [][NextRace]_vars

\* ---- senders whose identity is taken again by a new object ----
\* hashable_identity of an object is its id(), and two objects whose lifetimes
\* do not overlap may have the same id(): a number of SenderObjs, and PlainObj,
\* stand for the identity and for the object that has it at the time

\* the sender object exists
Present(sender) == (sender = PlainObj => palive) /\ Usable(sender)

\* PlainObj is destroyed; connect could not make a weak reference to it (lines
\* 156-161: TypeError, pass), so no callback runs
PlainCollect ==
    /\ Called
    /\ palive
    /\ ~(pc = "iter" /\ cur.sender = PlainObj)
    /\ palive' = FALSE
    /\ ret' = NoRet
    /\ notified' = {}
    /\ UNCHANGED <<regVars, is_muted, debug, watched, refVars, nsVars, raceVars, inherited,
                   objVars, muteStack, scopes, pc, cur>>

\* a new object is created where a destroyed sender was, and has its id(); the
\* memory of an object is released after its weak reference callbacks have run
Reuse(a) ==
    /\ UNCHANGED ops
    /\ \/ a \in SenderObjs /\ ~salive[a] /\ a \notin spending
       \/ a = PlainObj /\ ~palive
    /\ salive' = IF a \in SenderObjs THEN [salive EXCEPT ![a] = TRUE] ELSE salive
    /\ palive' = IF a = PlainObj THEN TRUE ELSE palive
    /\ inherited' = inherited \cup {<<r, a>> : r \in DictGet(by_sender, hashable_identity(a))}
    /\ ret' = NoRet
    /\ notified' = {}
    /\ UNCHANGED <<regVars, is_muted, debug, watched, refVars, nsVars, raceVars,
                   ext, alive, pendingCb, spending, muteStack, scopes, pc, cur>>

\* receivers kept alive by the program are connected to senders that are
\* destroyed and whose identity new objects take; the new objects are senders
\* of send. A receiver is not connected again to an identity it is still
\* recorded under
NextIdentity ==
    \/ \E r \in ReceiverObjs, s \in SenderArgs \cup {PlainObj}, w \in BOOLEAN :
          Present(s) /\ <<r, s>> \notin inherited /\ Connect(r, s, w, "ok")
    \/ \E s \in SenderObjs \cup {PlainObj} : Present(s) /\ SendBegin(<<s>>, FALSE, TRUE)
    \/ \E r \in ReceiverObjs, x \in BOOLEAN : SendStep(r, x)
    \/ SendEnd
    \/ \E s \in SenderObjs : SenderCollect(s)
    \/ \E s \in SenderObjs : CleanupSender(s)
    \/ PlainCollect
    \/ \E a \in SenderObjs \cup {PlainObj} : Reuse(a)

SpecIdentity == InitWith(TRUE, {}) /\ [][NextIdentity]_vars

Next ==
    \/ \E r \in ReceiverObjs, s \in SenderArgs, w \in BOOLEAN, m \in MetaOutcomes :
          Connect(r, s, w, m)
    \/ \E r \in ReceiverObjs, s \in SenderArgs, m \in {"ok", "Exception"} :
          Disconnect(r, s, m)
    \/ \E r \in ReceiverObjs, s \in SenderArgs, m \in MetaOutcomes :
          EnterConnectedTo(r, s, m)
    \/ \E sc \in scopes, x \in BOOLEAN, m \in {"ok", "Exception"} : ExitConnectedTo(sc, x, m)
    \/ EnterMuted
    \/ ExitMuted
    \/ \E a \in ArgTuples, async \in BOOLEAN, w \in BOOLEAN : SendBegin(a, async, w)
    \/ \E r \in ReceiverObjs, x \in BOOLEAN : SendStep(r, x)
    \/ \E r \in ReceiverObjs, x \in BOOLEAN : SendAwait(r, x)
    \/ SendEnd
    \/ \E s \in SenderArgs : ReceiversForCall(s)
    \/ \E s \in SenderArgs : HasReceiversForCall(s)
    \/ CleanupBookkeeping
    \/ ClearState
    \/ \E r \in ReceiverObjs : DropRefs(r)
    \/ \E r \in ReceiverObjs : Collect(r)
    \/ \E r \in ReceiverObjs : CleanupReceiver(r)
    \/ \E s \in SenderObjs : SenderCollect(s)
    \/ \E s \in SenderObjs : CleanupSender(s)

Spec == Init /\ [][Next]_vars

\* ---- the registry and the objects' lifetimes, without dispatch and scopes ----
NextReg ==
    \/ \E r \in ReceiverObjs, s \in SenderArgs, w \in BOOLEAN, m \in {"ok", "TypeError"} :
          Connect(r, s, w, m)
    \/ \E r \in ReceiverObjs, s \in SenderArgs : Disconnect(r, s, "ok")
    \/ \E s \in SenderArgs : ReceiversForCall(s)
    \/ \E s \in SenderArgs : HasReceiversForCall(s)
    \/ CleanupBookkeeping
    \/ ClearState
    \/ \E r \in ReceiverObjs : DropRefs(r)
    \/ \E r \in ReceiverObjs : Collect(r)
    \/ \E r \in ReceiverObjs : CleanupReceiver(r)
    \/ \E s \in SenderObjs : SenderCollect(s)
    \/ \E s \in SenderObjs : CleanupSender(s)

\* the registry operations never read __debug__
\* receiver_connected has receivers (they make connect roll back)
InitReg == InitWith(TRUE, {"receiver_connected"})

SpecReg == InitReg /\ [][NextReg]_vars

\* ---- connections under garbage collection ----
\* nothing is connected to the meta-signals
NextFair ==
    \/ \E r \in ReceiverObjs, s \in SenderArgs, w \in BOOLEAN : Connect(r, s, w, "ok")
    \/ \E r \in ReceiverObjs, s \in SenderArgs : Disconnect(r, s, "ok")
    \/ \E s \in SenderArgs : ReceiversForCall(s)
    \/ \E r \in ReceiverObjs : DropRefs(r)
    \/ \E r \in ReceiverObjs : Collect(r)
    \/ \E r \in ReceiverObjs : CleanupReceiver(r)
    \/ \E s \in SenderObjs : SenderCollect(s)
    \/ \E s \in SenderObjs : CleanupSender(s)

\* the runtime runs the callback of every cleared weak reference
SpecFair ==
    /\ InitWith(TRUE, {})
    /\ [][NextFair]_vars
    /\ \A r \in ReceiverObjs : WF_vars(CleanupReceiver(r))
    /\ \A s \in SenderObjs : WF_vars(CleanupSender(s))

\* ---- connected_to scopes over the registry ----
NextScope ==
    \/ \E r \in ReceiverObjs, s \in SenderArgs, w \in BOOLEAN : Connect(r, s, w, "ok")
    \/ \E r \in ReceiverObjs, s \in SenderArgs : Disconnect(r, s, "ok")
    \/ \E r \in ReceiverObjs, s \in SenderArgs, m \in MetaOutcomes :
          EnterConnectedTo(r, s, m)
    \/ \E sc \in scopes, x \in BOOLEAN, m \in {"ok", "Exception"} : ExitConnectedTo(sc, x, m)
    \/ \E r \in ReceiverObjs : DropRefs(r)
    \/ \E r \in ReceiverObjs : Collect(r)
    \/ \E r \in ReceiverObjs : CleanupReceiver(r)

\* both meta-signals have receivers
InitScope == InitWith(TRUE, MetaSignals)

SpecScope == InitScope /\ [][NextScope]_vars

\* ---- the registry with receivers on both meta-signals ----
NextMeta ==
    \/ \E r \in ReceiverObjs, s \in SenderArgs, w \in BOOLEAN, m \in MetaOutcomes :
          Connect(r, s, w, m)
    \/ \E r \in ReceiverObjs, s \in SenderArgs, m \in {"ok", "Exception"} :
          Disconnect(r, s, m)
    \/ \E s \in SenderArgs : ReceiversForCall(s)
    \/ \E r \in ReceiverObjs : DropRefs(r)
    \/ \E r \in ReceiverObjs : Collect(r)
    \/ \E r \in ReceiverObjs : CleanupReceiver(r)
    \/ \E s \in SenderObjs : SenderCollect(s)
    \/ \E s \in SenderObjs : CleanupSender(s)

SpecMeta == InitScope /\ [][NextMeta]_vars

\* ---- dispatch and muted scopes ----
\* receivers connected weakly and kept alive by the program; wrappers supplied
NextSend ==
    \/ \E r \in ReceiverObjs, s \in SenderArgs : Connect(r, s, TRUE, "ok")
    \/ \E r \in ReceiverObjs, s \in SenderArgs : Disconnect(r, s, "ok")
    \/ EnterMuted
    \/ ExitMuted
    \/ \E a \in ArgTuples, async \in BOOLEAN : SendBegin(a, async, TRUE)
    \/ \E r \in ReceiverObjs, x \in BOOLEAN : SendStep(r, x)
    \/ \E r \in ReceiverObjs, x \in BOOLEAN : SendAwait(r, x)
    \/ SendEnd

\* nothing is connected to the meta-signals
InitSend == \E dbg \in BOOLEAN : InitWith(dbg, {})

SpecSend == InitSend /\ [][NextSend]_vars

\* ---- dispatch with and without wrappers; receivers edit the registry ----
NextDispatch ==
    \/ \E r \in ReceiverObjs, s \in SenderArgs : Connect(r, s, TRUE, "ok")
    \/ \E r \in ReceiverObjs, s \in SenderArgs : Disconnect(r, s, "ok")
    \/ \E a \in ArgTuples, async \in BOOLEAN, w \in BOOLEAN : SendBegin(a, async, w)
    \/ \E r \in ReceiverObjs, x \in BOOLEAN : SendStep(r, x)
    \/ \E r \in ReceiverObjs, x \in BOOLEAN : SendAwait(r, x)
    \/ SendEnd

SpecDispatch == InitWith(TRUE, {}) /\ [][NextDispatch]_vars

\* ---- dispatch while the collector reclaims receivers and senders ----
\* the weak reference callbacks run between the steps of a send
NextCollect ==
    \/ \E r \in ReceiverObjs, s \in SenderArgs, w \in BOOLEAN : Connect(r, s, w, "ok")
    \/ \E a \in ArgTuples, async \in BOOLEAN : SendBegin(a, async, TRUE)
    \/ \E r \in ReceiverObjs, x \in BOOLEAN : SendStep(r, x)
    \/ \E r \in ReceiverObjs, x \in BOOLEAN : SendAwait(r, x)
    \/ SendEnd
    \/ \E r \in ReceiverObjs : DropRefs(r)
    \/ \E r \in ReceiverObjs : Collect(r)
    \/ \E r \in ReceiverObjs : CleanupReceiver(r)
    \/ \E s \in SenderObjs : SenderCollect(s)
    \/ \E s \in SenderObjs : CleanupSender(s)

SpecCollect == InitWith(TRUE, {}) /\ [][NextCollect]_vars

\* ---- observations used by the properties ----
\* what list(signal.receivers_for(sender)) gives in the current state
yields(sender) == receivers_for(Reg, sender, alive).yielded

Bucket(sid) == DictGet(by_sender, sid)
SpecificSenders == {NONE} \cup SenderObjs
SomeSender == CHOOSE s \in SenderObjs : TRUE

\* ---- C2 ----
\* C2: receivers_for never yields a collected receiver; every weak entry it
\* meets whose target is collected (cleanup callback run or not) is removed from
\* receivers and from every sender bucket and is skipped; strong entries it
\* meets are yielded and stay stored as they were.
C2_NeverYieldsDead ==
    [][\A s \in SenderArgs : ReceiversForCall(s) =>
          LET met == (Bucket(ANY_ID) \cup Bucket(hashable_identity(s))) \cap DOMAIN receivers
              dead == {r \in met : receivers[r] = "weak" /\ ~alive[r]}
              strong == {r \in met : receivers[r] = "strong"}
          IN  /\ \A r \in ret'.s : alive[r]
              /\ \A r \in dead : /\ r \notin ret'.s
                                 /\ r \notin DOMAIN receivers'
                                 /\ \A k \in DOMAIN by_sender' : r \notin by_sender'[k]
              /\ \A r \in strong : r \in ret'.s /\ r \in DOMAIN receivers'
                                   /\ receivers'[r] = "strong"]_vars

\* a receiver connected weakly, then dropped and collected; receivers_for ran
\* before its callback and removed the entry
C2_Witness ==
    /\ ret.k = "yielded"
    /\ ops = 3
    /\ \E r \in pendingCb : r \notin DOMAIN receivers /\ r \notin ret.s

\* ---- C3 ----
\* C3: for every sender S, receivers_for(S) yields exactly the live receivers
\* of by_sender[ANY] united with by_sender[identity(S)].
C3_AnyWildcardUnion ==
    \A s \in SenderArgs :
        Usable(s) =>
            yields(s) = {r \in Bucket(ANY_ID) \cup Bucket(hashable_identity(s)) : alive[r]}

\* R1 connected to ANY and R2 connected to X: receivers_for(X) yields both,
\* receivers_for(None) yields R1 only
C3_Witness ==
    /\ NumReceivers >= 2
    /\ Bucket(ANY_ID) = {1}
    /\ Bucket(hashable_identity(SomeSender)) = {2}
    /\ Bucket(hashable_identity(NONE)) = {}
    /\ salive[SomeSender]
    /\ yields(SomeSender) = {1, 2}
    /\ yields(NONE) = {1}

\* ---- C4 ----
\* C4: every receiver identity present in receivers has a non-empty by_receiver
\* set (a receiver whose by_receiver set became empty is gone from receivers).
C4_ReceiversHaveSenders ==
    \A r \in DOMAIN receivers : DictGet(by_receiver, r) # {}

\* ---- C5 ----
\* C5: after disconnect(receiver, ANY) the receiver is absent from receivers,
\* from by_receiver and from every by_sender bucket, and receivers_for yields it
\* for no sender.
C5_DisconnectAnyTotal ==
    [][\A r \in ReceiverObjs : Disconnect(r, ANY, "ok") =>
          /\ r \notin DOMAIN receivers'
          /\ r \notin DOMAIN by_receiver'
          /\ \A k \in DOMAIN by_sender' : r \notin by_sender'[k]
          /\ \A s \in SenderArgs : r \notin receivers_for(Reg', s, alive').yielded]_vars

\* a receiver that was registered under specific senders has been disconnected
\* with sender=ANY: the buckets of None and of a sender object are left empty
C5_Witness ==
    /\ ops = 3
    /\ DOMAIN receivers = {}
    /\ DOMAIN by_receiver = {}
    /\ {hashable_identity(NONE), hashable_identity(SomeSender)} \subseteq DOMAIN by_sender
    /\ \A k \in DOMAIN by_sender : by_sender[k] = {}
    /\ \A r \in ReceiverObjs : Callable(r)

\* what every step of Disconnect has: a call is counted, no object's lifetime
\* changes and no receiver is added
DisconnectReturn ==
    /\ ops' = ops + 1
    /\ UNCHANGED objVars
    /\ DOMAIN receivers' \subseteq DOMAIN receivers

\* ---- C6 ----
\* C6: disconnect(f, sender=A) for a specific sender A removes f from A's
\* bucket and A from f's by_receiver set and nothing else: receivers, the other
\* buckets and the other receivers' sets are unchanged, receivers_for(A) no
\* longer yields f unless f is connected to ANY, and receivers_for(B) yields what
\* it did for every other sender B.
C6_SpecificDisconnectIsLocal ==
    [][DisconnectReturn =>
          \A f \in ReceiverObjs, A \in SpecificSenders : Disconnect(f, A, "ok") =>
              LET a == hashable_identity(A)
              IN  /\ receivers' = receivers
                  /\ DictGet(by_sender', a) = Bucket(a) \ {f}
                  /\ \A k \in (DOMAIN by_sender \cup DOMAIN by_sender') \ {a} :
                        DictGet(by_sender', k) = Bucket(k)
                  /\ DictGet(by_receiver', f) = DictGet(by_receiver, f) \ {a}
                  /\ \A q \in ReceiverObjs \ {f} :
                        DictGet(by_receiver', q) = DictGet(by_receiver, q)
                  /\ f \notin Bucket(ANY_ID) =>
                        f \notin receivers_for(Reg', A, alive').yielded
                  /\ \A B \in SenderArgs \ {A} :
                        receivers_for(Reg', B, alive').yielded = yields(B)]_vars

\* f was connected to a sender object and to None and then disconnected from the
\* sender object: receivers_for(None) still yields f, receivers_for(object) not
C6_Witness ==
    /\ ops = 3
    /\ hashable_identity(SomeSender) \in weak_senders
    /\ salive[SomeSender]
    /\ \E f \in ReceiverObjs :
          /\ DOMAIN receivers = {f}
          /\ hashable_identity(SomeSender) \in DOMAIN by_sender
          /\ Bucket(hashable_identity(SomeSender)) = {}
          /\ Bucket(hashable_identity(NONE)) = {f}
          /\ Bucket(ANY_ID) = {}
          /\ f \in yields(NONE)
          /\ f \notin yields(SomeSender)

\* ---- C1 ----
\* C1: once a receiver has been collected, without any disconnect call its
\* entry leaves the registry (the cleanup callback, or receivers_for meeting the
\* dead entry, removes it) and from then on receivers_for yields it for no
\* sender.
C1_WeakAutoDisconnect ==
    \A r \in ReceiverObjs :
        (~alive[r]) ~> [](/\ r \notin DOMAIN receivers
                          /\ \A s \in SenderArgs : r \notin yields(s))

\* a receiver connected weakly to a sender object was dropped and collected, its
\* callback has run and emptied the sender's bucket; nothing else was called
C1_Witness ==
    /\ ops = 2
    /\ DOMAIN receivers = {}
    /\ DOMAIN by_receiver = {}
    /\ hashable_identity(SomeSender) \in DOMAIN by_sender
    /\ \E r \in ReceiverObjs : ~alive[r] /\ r \notin pendingCb

\* ---- C9 ----
\* C9: connected_to(receiver, sender) connects on entry (after the step that
\* opens the scope receivers_for(sender) yields the receiver) and on leaving the
\* block, normally or by an exception, disconnects it: after the step that closes
\* the scope receivers_for(sender) does not yield it.
C9_ConnectedToScope ==
    [][/\ \A sc \in scopes' \ scopes :
             sc[1] \in receivers_for(Reg', sc[2], alive').yielded
       /\ \A sc \in scopes \ scopes' :
             sc[1] \notin receivers_for(Reg', sc[2], alive').yielded]_vars

\* a block entered with a sender object has raised and been left: the sender's
\* bucket is empty again and the receiver is gone from the registry
C9_Witness ==
    /\ ops = 1
    /\ scopes = {}
    /\ ret.k = "Exception"
    /\ DOMAIN receivers = {}
    /\ DOMAIN by_receiver = {}
    /\ hashable_identity(SomeSender) \in DOMAIN by_sender
    /\ \A r \in ReceiverObjs : Callable(r)

\* what every step of SendBegin has: a call is counted, and it has returned a
\* list, raised TypeError, or started the dispatch
SendReturn ==
    /\ ops' = ops + 1
    /\ pc = "idle"
    /\ pc' = "iter" \/ ret'.k \in {"list", "TypeError"}

\* ---- C7 ----
\* C7: a send or send_async made while a muted() scope is open returns an empty
\* list, starts no dispatch (invokes no receiver) and leaves the registry as it
\* was.
C7_MutedSendIsNoOp ==
    [][SendReturn =>
          \A a \in ArgTuples, async \in BOOLEAN :
              (muteStack # <<>> /\ SendBegin(a, async, TRUE)) =>
                  /\ ret' = Returned(<<>>)
                  /\ pc' = "idle"
                  /\ UNCHANGED regVars]_vars

\* ---- C8 ----
\* C8: entering muted() sets is_muted, and leaving it (normally or by an
\* exception) gives is_muted the value it had just before the entry, so that
\* leaving an inner scope leaves the signal muted.
C8_MutedRestoresFlag ==
    [][/\ EnterMuted => is_muted'
       /\ ExitMuted => is_muted' = muteStack[Len(muteStack)]]_vars

\* ---- C10 ----
\* C10 as claimed: send / send_async with more than one positional sender fail
\* with TypeError and start no dispatch, in every state of the signal.
C10_Original ==
    [][SendReturn =>
          \A a \in ArgTuples, async \in BOOLEAN :
              (Len(a) > 1 /\ SendBegin(a, async, TRUE)) =>
                  ret'.k = "TypeError" /\ pc' = "idle"]_vars

\* C10 (amended): send / send_async with more than one positional sender fail
\* with TypeError, start no dispatch and leave the registry unchanged, unless
\* the signal is muted, or it has no receivers and runs under -O: in these two
\* cases the call returns an empty list without looking at its arguments.
C10_TooManySenders ==
    [][SendReturn =>
          \/ /\ pc' = "idle"
             /\ UNCHANGED regVars
             /\ ret' = IF is_muted \/ (DOMAIN receivers = {} /\ ~debug)
                       THEN Returned(<<>>)
                       ELSE Raised("TypeError", <<>>)
          \/ \A a \in ArgTuples, async \in BOOLEAN :
                Len(a) > 1 => ~SendBegin(a, async, TRUE)]_vars

\* an unmuted signal with a live receiver connected has refused a send
C10_Witness ==
    /\ ret.k = "TypeError"
    /\ pc = "idle"
    /\ ~is_muted
    /\ \E r \in DOMAIN receivers : alive[r] /\ r \in Bucket(ANY_ID)

\* ---- C11 ----
\* C11: send / send_async with the sender omitted, None or an object, on a
\* signal whose receivers mapping is empty, return an empty list, start no
\* dispatch and leave receivers, by_sender, by_receiver, weak_senders and the
\* muted flag exactly as they were.
C11_SendWithoutReceivers ==
    [][SendReturn =>
          \A a \in ArgTuples, async \in BOOLEAN :
              (Len(a) <= 1 /\ DOMAIN receivers = {} /\ SendBegin(a, async, TRUE)) =>
                  /\ ret' = Returned(<<>>)
                  /\ pc' = "idle"
                  /\ UNCHANGED <<regVars, is_muted>>]_vars

\* an unmuted signal whose only receiver was disconnected (the buckets are left
\* behind, without one for ANY) has answered a send with the empty list
C11_Witness ==
    /\ ret = Returned(<<>>)
    /\ pc = "idle"
    /\ ~is_muted /\ muteStack = <<>>
    /\ DOMAIN receivers = {}
    /\ DOMAIN by_sender # {}
    /\ ANY_ID \notin DOMAIN by_sender

\* ---- C12 ----
\* C12: when a receiver of receiver_connected raises, whatever the exception,
\* while connect(receiver, sender) notifies it, the exception reaches the caller
\* and the connection just made is undone: receivers_for(sender), which did not
\* yield the receiver before the call, does not yield it after.
C12_MetaRaiseRollsBack ==
    [][\A r \in ReceiverObjs, s \in SenderArgs, w \in BOOLEAN, m \in {"TypeError", "Exception"} :
          (r \notin yields(s) /\ Connect(r, s, w, m)) =>
              /\ ret'.k = m
              /\ r \notin receivers_for(Reg', s, alive').yielded]_vars

\* ---- C16 ----
\* C16: receiver_disconnected is sent only by steps that call disconnect(): a
\* step that sends it is a method call that changes no object's lifetime, and
\* when it is a connect (it has sent receiver_connected too) it is one that
\* rolled back with TypeError. The weak-receiver callback, the sender callback
\* and receivers_for removing a dead entry send nothing.
C16_OnlyExplicitDisconnectNotifies ==
    [][/\ "receiver_disconnected" \in notified' =>
             /\ ops' = ops + 1
             /\ UNCHANGED objVars
             /\ ret'.k \in {"none", "TypeError", "Exception"}
             /\ "receiver_connected" \in notified' => ret'.k = "TypeError"
       /\ \A r \in ReceiverObjs :
             CleanupReceiver(r) => "receiver_disconnected" \notin notified'
       /\ \A s \in SenderObjs :
             CleanupSender(s) => "receiver_disconnected" \notin notified'
       /\ ret'.k = "yielded" =>
             \A s \in SenderArgs :
                 ReceiversForCall(s) => "receiver_disconnected" \notin notified']_vars

\* receiver_disconnected has receivers, and the callback of a collected weak
\* receiver has removed its entry from the registry without sending it
C16_Witness ==
    /\ "receiver_disconnected" \in watched
    /\ notified = {}
    /\ ops = 2
    /\ DOMAIN receivers = {}
    /\ DOMAIN by_sender # {}
    /\ \E r \in ReceiverObjs : ~alive[r] /\ r \notin pendingCb

\* ---- C13 ----
\* C13: when a receiver raises during send or send_async the call ends at once
\* with that exception: the loop is left, so the receivers not yet invoked are
\* never invoked by this call (ret.v is what was invoked), and the registry,
\* with whatever the receivers invoked so far did to it, is left as it is.
C13_ReceiverExceptionAborts ==
    [][pc = "iter" =>
          \A r \in ReceiverObjs :
              (SendStep(r, TRUE) \/ SendAwait(r, TRUE)) =>
                  /\ ret' = Raised("Exception", Append(cur.results, r))
                  /\ pc' = "idle"
                  /\ cur' = NoCall
                  /\ UNCHANGED regVars]_vars

\* the first receiver invoked has raised while another one, connected and alive,
\* was still to be invoked
C13_Witness ==
    /\ ret.k = "Exception"
    /\ Len(ret.v) = 1
    /\ pc = "idle"
    /\ ops = 3
    /\ \E q \in DOMAIN receivers : q # ret.v[1] /\ q \in Bucket(ANY_ID) /\ alive[q]

\* ---- C14 ----
\* C14: send reaching a coroutine receiver without _async_wrapper, and
\* send_async reaching a non-coroutine receiver without _sync_wrapper, end with
\* RuntimeError; the receiver is not skipped and the loop does not go on.
C14_MissingWrapperFails ==
    [][pc = "iter" =>
          \A r \in ReceiverObjs :
              (/\ ~cur.wrapper
               /\ r \in DOMAIN receivers
               /\ alive[r]
               /\ cur.async # iscoroutinefunction(r)
               /\ SendStep(r, FALSE)) =>
                  /\ ret'.k = "RuntimeError"
                  /\ pc' = "idle"
                  /\ r \notin {ret'.v[i] : i \in 1..Len(ret'.v)}]_vars

\* send_async without _sync_wrapper has invoked a coroutine receiver and then
\* failed on a plain function
C14_Witness ==
    /\ ret.k = "RuntimeError"
    /\ Len(ret.v) = 1
    /\ iscoroutinefunction(ret.v[1])
    /\ pc = "idle"

\* ---- C15 ----
\* C15: during a send_async call at most one receiver is in progress: the next
\* receiver is started only when the awaitable of the previous one has completed.
C15_AwaitedOneAtATime == Cardinality(cur.running) <= 1

\* send_async has awaited one receiver to completion and is awaiting the next
C15_Witness ==
    /\ pc = "iter"
    /\ cur.async
    /\ Len(cur.results) = 1
    /\ Cardinality(cur.running) = 1

\* ---- C17 ----
\* C17: the cleanup callback of a collected sender S removes S's identity with
\* its bucket from by_sender, removes S's weak_senders entry and removes S's
\* identity from by_receiver[r] of every receiver r of the bucket; the buckets
\* of ANY and of the other senders are unchanged.
C17_SenderCleanup ==
    [][\A s \in SenderObjs : CleanupSender(s) =>
          LET sid == hashable_identity(s)
          IN  /\ sid \notin DOMAIN by_sender'
              /\ sid \notin weak_senders'
              /\ \A r \in Bucket(sid) : sid \notin DictGet(by_receiver', r)
              /\ \A r \in ReceiverObjs :
                    DictGet(by_receiver', r) = DictGet(by_receiver, r) \ {sid}
              /\ \A k \in DOMAIN by_sender \ {sid} :
                    k \in DOMAIN by_sender' /\ by_sender'[k] = by_sender[k]
              /\ DOMAIN by_sender' \subseteq DOMAIN by_sender]_vars

\* a sender object with a receiver connected to it was collected and its
\* callback has run, while another receiver stays connected to None
C17_Witness ==
    /\ ops = 3
    /\ ~salive[SomeSender]
    /\ SomeSender \notin spending
    /\ hashable_identity(SomeSender) \notin DOMAIN by_sender
    /\ weak_senders = {}
    /\ Bucket(hashable_identity(NONE)) # {}
    /\ \E r \in DOMAIN by_receiver : by_receiver[r] = {}

\* ---- C18 ----
\* C18: connect(receiver, sender) with a sender that cannot be weakly
\* referenced returns normally, registers the receiver under that sender so that
\* receivers_for(sender) yields it, and makes no weak_senders entry for the sender.
C18_UnweakrefableSender ==
    [][\A r \in ReceiverObjs, s \in SpecificSenders, w \in BOOLEAN :
          (~WeakReferenceable(s) /\ Connect(r, s, w, "ok")) =>
              /\ ret' = NoRet
              /\ r \in DictGet(by_sender', hashable_identity(s))
              /\ r \in receivers_for(Reg', s, alive').yielded
              /\ hashable_identity(s) \notin weak_senders']_vars

\* a receiver has just been connected to None, which has no weak references
C18_Witness ==
    /\ ops = 1
    /\ ret = NoRet
    /\ notified = {"receiver_connected"}
    /\ weak_senders = {}
    /\ \E r \in ReceiverObjs :
          /\ Bucket(hashable_identity(NONE)) = {r}
          /\ r \in yields(NONE)

\* ---- C19 ----
\* C19: has_receivers_for(sender) answers False whenever the ANY bucket and the
\* sender's own bucket are both empty or absent.
C19_NoReceiversAnswersFalse ==
    [][\A s \in SenderArgs :
          (/\ Bucket(ANY_ID) = {}
           /\ Bucket(sender_id_of(s)) = {}
           /\ HasReceiversForCall(s)) => ret'.k = "False"]_vars

\* ---- C20 ----
\* C20: after connect(r, sender=ANY, weak=False) the signal holds r strongly,
\* however r was connected before: the entry of r in receivers is the receiver
\* itself, so r cannot be collected while the entry is there.
C20_StrongConnectHolds ==
    [][\A r \in ReceiverObjs :
          Connect(r, ANY, FALSE, "ok") =>
              /\ r \in DOMAIN receivers'
              /\ receivers'[r] = "strong"]_vars

\* ---- C21 ----
\* C21: a connect that returns leaves exactly the entries receivers had, plus
\* one for the receiver when it had none; when the receiver was registered
\* already (whatever the sender and the weak flag of the new call) its entry
\* is reused as it is: the stored reference is the one of the first connect.
C21_OneEntryPerReceiver ==
    [][(ops' = ops + 1 /\ ret'.k = "none") =>
          \A r \in ReceiverObjs, s \in SenderArgs :
              \* a connect of r to s leaves s among the senders of r
              sender_id_of(s) \in DictGet(by_receiver', hashable_identity(r)) =>
                  \A w \in BOOLEAN :
                      Connect(r, s, w, "ok") =>
                          /\ DOMAIN receivers' = DOMAIN receivers \cup {hashable_identity(r)}
                          /\ \A x \in DOMAIN receivers : receivers'[x] = receivers[x]]_vars

\* one receiver has been connected twice, to two different senders, and has
\* one entry
C21_Witness ==
    /\ ops = 2
    /\ \E r \in ReceiverObjs :
          /\ DOMAIN receivers = {hashable_identity(r)}
          /\ Cardinality(DictGet(by_receiver, hashable_identity(r))) = 2

\* ---- C22 ----
\* the callables among the on_delete given to a reference
Registered(x) == SelectSeq(refobjs[x].given, callable)

\* C22: a bound-method reference calls its deletion callbacks exactly once:
\* before the instance or the function is collected none has been called, and
\* from the first collection on (one run of remove or two) the calls made are
\* the registered callbacks, one call each.
C22_ChainFiresOnce ==
    \A x \in RefIds :
        refobjs[x].fired = IF refobjs[x].removes = 0 THEN <<>> ELSE Registered(x)

\* ---- C23 ----
\* C23: whichever callbacks raise, a run of remove calls every callable of the
\* deletion list, in order, the ones after a raising callback included, and no
\* exception leaves remove.
C23_ChainSurvivesException ==
    [][\A x \in RefIds :
          (x <= Len(refobjs') /\ refobjs'[x].removes > refobjs[x].removes) =>
              /\ ~refobjs'[x].escaped
              /\ refobjs'[x].fired =
                     refobjs[x].fired \o SelectSeq(refobjs[x].deletion_methods, callable)]_vars

\* the first of two callbacks raised and the second was called after it
C23_Witness ==
    /\ ret.k = "collected"
    /\ \E x \in RefIds :
          /\ refobjs[x].removes = 1
          /\ Len(refobjs[x].fired) = 2
          /\ refobjs[x].fired[1] \in ret.s
          /\ refobjs[x].fired[2] \notin ret.s

\* ---- C24 ----
\* C24: calling a bound-method reference gives the bound method of its instance
\* and function exactly when both are alive, and None when either has been
\* collected; the call changes nothing of the reference, of _all_instances or
\* of the objects.
C24_CallGivesLiveMethod ==
    [][ret'.k \in {"bound", "None"} =>
          \A x \in ret'.s :
              CallRef(x) =>
                  /\ ret'.k = "bound" <=>
                         (ialive[refobjs[x].key[1]] /\ falive[refobjs[x].key[2]])
                  /\ ret'.k = "bound" => ret'.v = refobjs[x].key
                  /\ UNCHANGED refVars]_vars

\* a reference whose instance is alive and whose function was collected has
\* answered None
C24_Witness ==
    /\ ret.k = "None"
    /\ \E x \in ret.s :
          /\ refobjs[x].live
          /\ ialive[refobjs[x].key[1]]
          /\ ~falive[refobjs[x].key[2]]

\* ---- C25 ----
\* C25: a safe reference requested for a bound method whose instance and
\* function are alive, while an earlier reference for the same instance and
\* function still exists, is that earlier reference: no object is made, the two
\* compare equal and there is one deletion list.
C25_SameReferenceForSameMethod ==
    [][ret'.k = "ref" =>
          LET got == ret'.v[1]
              target == refobjs'[got].key
          IN  \A on_delete \in Callbacks \cup {NoneCb} :
                  SafeRef(target, on_delete) =>
                      \A x \in RefIds :
                          (refobjs[x].live /\ refobjs[x].key = calculate_key(target)) =>
                              /\ got = x
                              /\ Len(refobjs') = Len(refobjs)
                              /\ __eq__(refobjs'[got], refobjs[x])]_vars

\* the second request for a bound method has returned the reference of the first
C25_Witness ==
    /\ ret.k = "ref"
    /\ Len(refobjs) = 1
    /\ Len(refobjs[ret.v[1]].given) = 2

\* ---- C26 ----
\* C26: a request with on_delete c2 for a bound method that has a reference
\* already returns that reference with c2 appended to its deletion list: the
\* callbacks it had (c1) are kept in front of c2.
C26_DedupKeepsCallbacks ==
    [][ret'.k = "ref" =>
          LET got == ret'.v[1]
              target == refobjs'[got].key
          IN  \A on_delete \in Callbacks \cup {NoneCb} :
                  (got <= Len(refobjs) /\ SafeRef(target, on_delete)) =>
                      refobjs'[got].deletion_methods =
                          Append(refobjs[got].deletion_methods, on_delete)]_vars

\* ---- C27 ----
\* C27: in a Namespace, a call for a name that has no entry stores the signal
\* it has made; an entry, once made, stays as it is; the signal a call has
\* returned is the one stored under its name; and no signal is stored under
\* two names.
C27_GetOrCreate ==
    [][/\ \A n \in DOMAIN ns : n \in DOMAIN ns' /\ ns'[n] = ns[n]
       /\ \A t \in Threads :
             (calls'[t].pc = "idle" /\ calls'[t].res # NoSignal) =>
                 getitem(ns', calls'[t].name) = calls'[t].res
       /\ \A n, m \in DOMAIN ns' : n # m => ns'[n] # ns'[m]
       /\ \A t \in Threads :
             (SignalSetdefault(t) /\ calls[t].name \notin DOMAIN ns) =>
                 /\ calls[t].obj \notin {ns[n] : n \in DOMAIN ns}
                 /\ ns' = DictPut(ns, calls[t].name, calls[t].obj)]_vars

\* three calls have been made for two names, and two signals exist
C27_Witness ==
    /\ ops = 3
    /\ \A t \in Threads : calls[t].pc = "idle"
    /\ made = 2
    /\ Cardinality(DOMAIN ns) = 2

\* ---- C28 ----
\* C28: whatever the interleaving of the threads' calls, a signal that a call
\* has returned, and that its caller still holds, is the signal stored under
\* the name: no caller holds a signal other than the stored one.
C28_ConcurrentCallsAgree ==
    \A t \in Threads :
        (calls[t].pc = "idle" /\ calls[t].res \in sigheld) =>
            getitem(ns, calls[t].name) = calls[t].res

\* ---- C29 ----
\* C29: in a WeakNamespace, the entry of a signal that a caller holds stays, and
\* a call for its name returns that signal; only a signal nobody holds is
\* collected, and its entry then leaves the mapping; a call for a name without
\* an entry makes a signal that did not exist before, stores and returns it.
C29_WeakNamespaceLifetime ==
    [][/\ \A n \in DOMAIN ns : ns[n] \in sigheld => getitem(ns', n) = ns[n]
       /\ \A n \in DOMAIN ns :
             (ns[n] \in sigheld /\ SignalLookup(MainThread, n)) =>
                 calls'[MainThread].pc = "idle" /\ calls'[MainThread].res = ns[n]
       /\ \A obj \in sigalive :
             CollectSignal(obj) =>
                 /\ obj \notin sigheld
                 /\ \A n \in DOMAIN ns' : ns'[n] # obj
       /\ \A n \in Names \ DOMAIN ns :
             SignalLookup(MainThread, n) => calls'[MainThread].pc = "create"
       /\ SignalCreate(MainThread) =>
             /\ calls'[MainThread].obj \notin sigalive
             /\ calls'[MainThread].obj[1] > made
       /\ SignalStore(MainThread) =>
             /\ calls'[MainThread].res = calls[MainThread].obj
             /\ getitem(ns', calls[MainThread].name) = calls[MainThread].obj]_vars

\* the first signal of a name was released and collected, and a later call for
\* the name has returned a second signal, which is stored
C29_Witness ==
    \E n \in Names :
        /\ made = 2
        /\ <<1, n>> \notin sigalive
        /\ getitem(ns, n) = <<2, n>>
        /\ calls[MainThread] = [pc |-> "idle", name |-> n, obj |-> NoSignal, res |-> <<2, n>>]


\* The pair of the racing connect, and whether send(sender) reaches the receiver
RaceOver == cth.pc = "done" /\ kth.pc = "done"
RaceLinked == hashable_identity(cth.receiver) \in DictGet(by_sender, sender_id_of(cth.sender))
RaceRecorded ==
    /\ hashable_identity(cth.receiver) \in DOMAIN receivers
    /\ sender_id_of(cth.sender) \in DictGet(by_receiver, hashable_identity(cth.receiver))
RaceReached ==
    hashable_identity(cth.receiver)
        \in receivers_for(Reg, IF cth.sender = ANY THEN NONE ELSE cth.sender, alive).yielded

\* C30: _cleanup_bookkeeping is not safe under a concurrent connect(r, s). When
\* its pop of the bucket of s falls between the connect's fetch of that bucket
\* and its add, or after the add on a bucket it found empty before, then after
\* both calls have returned r is in receivers but not in by_sender[s], and a
\* send(s) reaches r only if r is connected to ANY; a connect that was not
\* interrupted in that way leaves r in by_sender[s]
C30_CleanupRacesConnect ==
    RaceOver =>
        /\ hashable_identity(cth.receiver) \in DOMAIN receivers
        /\ (cth.lost \/ kth.stale) => ~RaceLinked
        /\ (cth.lost \/ kth.stale) /\ cth.sender # ANY =>
              (RaceReached => hashable_identity(cth.receiver) \in DictGet(by_sender, ANY_ID))
        /\ ~(cth.lost \/ kth.stale) => RaceLinked

\* both calls have returned for a pair whose two buckets were there and empty
\* when connect began: the receiver is recorded in receivers and by_receiver for
\* the sender, it is not in by_sender, and send(sender) does not reach it
C30_Witness ==
    /\ RaceOver
    /\ cth.stale_pair
    /\ cth.lost
    /\ RaceRecorded
    /\ ~RaceLinked
    /\ cth.sender \in SenderObjs
    /\ ~RaceReached


\* ---- C31 ----
\* C31: _cleanup_bookkeeping run on its own removes only empty buckets from
\* by_sender and by_receiver: receivers and weak_senders are unchanged, no key
\* is added, every non-empty bucket is unchanged, and receivers_for(s) yields
\* the same receivers for every sender s before and after.
C31_PruneRemovesOnlyEmpty ==
    [][CleanupBookkeeping =>
          /\ receivers' = receivers
          /\ weak_senders' = weak_senders
          /\ DOMAIN by_sender' = {k \in DOMAIN by_sender : by_sender[k] # {}}
          /\ DOMAIN by_receiver' = {k \in DOMAIN by_receiver : by_receiver[k] # {}}
          /\ \A k \in DOMAIN by_sender' : by_sender'[k] = by_sender[k]
          /\ \A k \in DOMAIN by_receiver' : by_receiver'[k] = by_receiver[k]
          /\ \A s \in SenderArgs :
                receivers_for(Reg', s, alive').yielded = receivers_for(Reg, s, alive).yielded]_vars

\* the prune has removed the empty bucket of a registered receiver, and another
\* receiver keeps its non-empty bucket and is still yielded
C31_Witness ==
    /\ ret = NoRet
    /\ \E r1 \in DOMAIN receivers, r2 \in DOMAIN by_receiver, s \in SenderArgs :
          /\ r1 \notin DOMAIN by_receiver
          /\ by_receiver[r2] # {}
          /\ r2 \in Bucket(sender_id_of(s))
          /\ r2 \in yields(s)
          /\ \A k \in DOMAIN by_sender : by_sender[k] # {}


\* ---- C32 ----
\* C32: a send goes on while weak reference callbacks (receiver cleanup, sender
\* cleanup) run between the lookup of the ids and the turns of its loop: a turn
\* of the loop raises only what the receiver raises, a receiver is called only
\* if its entry is in receivers and its object is alive when the turn comes,
\* and an id whose entry a callback has removed is passed over without a change
\* to the registry.
C32_DispatchToleratesCleanup ==
    [][(pc = "iter" /\ ops' = ops) =>
          \A r \in cur.ids, x \in BOOLEAN :
              SendStep(r, x) =>
                  LET called == \/ pc' = "idle"
                                \/ r \in cur'.running
                                \/ Len(cur'.results) > Len(cur.results)
                  IN  /\ ~x => (pc' = "iter" /\ ret' = NoRet)
                      /\ called => /\ r \in DOMAIN receivers
                                   /\ alive[r]
                                   /\ r \in Bucket(ANY_ID) \cup Bucket(hashable_identity(cur.sender))
                      /\ r \notin DOMAIN receivers => (~called /\ UNCHANGED regVars)]_vars

\* a send has looked its ids up, and the callback of a collected receiver
\* has since removed the entry of an id the loop has not reached yet
C32_Witness ==
    /\ pc = "iter"
    /\ \E r \in cur.ids :
          /\ r \notin DOMAIN receivers
          /\ ~alive[r]
          /\ r \notin pendingCb


\* ---- C33 ----
\* C33: in every state reached by calls made one after the other (connect,
\* disconnect, the cleanup callbacks, the removal of dead entries by
\* receivers_for, _cleanup_bookkeeping, _clear_state) the two indices are
\* inverses of each other: r is in by_sender[s] exactly when s is in
\* by_receiver[r], and every id in a by_sender bucket is a key of receivers.
C33_IndicesAreInverses ==
    /\ \A s \in DOMAIN by_sender : \A r \in by_sender[s] :
          r \in DOMAIN receivers /\ s \in DictGet(by_receiver, r)
    /\ \A r \in DOMAIN by_receiver : \A s \in by_receiver[r] :
          r \in DictGet(by_sender, s)

\* a receiver connected to two senders, next to a bucket that a disconnect or
\* a cleanup has emptied
C33_Witness ==
    /\ ops = MaxOps
    /\ \E r \in DOMAIN by_receiver : Cardinality(by_receiver[r]) = 2
    /\ \E k \in DOMAIN by_sender : by_sender[k] = {}


\* ---- C34 ----
Distinct(seq) == \A i, j \in 1..Len(seq) : seq[i] = seq[j] => i = j
Elements(seq) == {seq[i] : i \in 1..Len(seq)}

\* C34: one send or send_async calls a receiver at most once, also when the
\* receiver is in the bucket of ANY and in the bucket of the sender, or was
\* connected several times: the receivers called so far are all different and
\* are not among the ids still to visit, and the list returned has one pair
\* for each receiver called.
C34_EachReceiverOnce ==
    /\ pc = "iter" =>
          /\ Distinct(cur.results)
          /\ Elements(cur.results) \cap (cur.ids \cup cur.running) = {}
          /\ cur.ids \cap cur.running = {}
    /\ ret.k \in {"list", "Exception", "RuntimeError"} => Distinct(ret.v)

\* a send for a sender object has visited all its ids: the receiver that is in
\* the bucket of ANY and in the bucket of the sender was called once
C34_Witness ==
    /\ pc = "iter"
    /\ cur.sender = SomeSender
    /\ cur.ids = {}
    /\ \E r \in Bucket(ANY_ID) \cap Bucket(hashable_identity(SomeSender)) :
          cur.results = <<r>>


\* ---- C35 ----
\* C35: has_receivers_for has no false negatives: whenever has_receivers_for(S)
\* answers False, receivers_for(S) called in its place yields nothing.
C35_NoFalseNegative ==
    [][(ops' = ops + 1 /\ ret'.k = "False") =>
          \A s \in SenderArgs : HasReceiversForCall(s) => yields(s) = {}]_vars

\* has_receivers_for has answered True on the strength of the sender's own
\* bucket (the bucket of ANY is empty), and receivers_for yields for that sender
C35_Witness ==
    /\ ret.k = "True"
    /\ Bucket(ANY_ID) = {}
    /\ \E s \in SpecificSenders :
          /\ DOMAIN by_sender = {ANY_ID, hashable_identity(s)}
          /\ yields(s) # {}


\* ---- C36 ----
\* C36: leaving a connected_to(receiver, sender=A) block undoes only the
\* connection the block made: under every other sender (or ANY) the receiver was
\* connected to when the block is left, it is still connected afterwards, and
\* receivers_for of that sender still yields it.
C36_ScopeUndoesOnlyItsOwn ==
    [][\A sc \in scopes \ scopes' : \A s \in SenderArgs :
          (s # sc[2] /\ sc[1] \in Bucket(sender_id_of(s)) /\ sc[1] \in yields(s)) =>
              /\ sc[1] \in DictGet(by_sender', sender_id_of(s))
              /\ sc[1] \in receivers_for(Reg', s, alive').yielded]_vars


\* ---- C37 ----
\* C37: a connect(receiver, sender) that fails because a receiver of
\* receiver_connected raised leaves the registrations as they were before the
\* call: for every sender, receivers_for yields the same receivers after the
\* failed call as before it.
C37_FailedConnectChangesNothing ==
    [][(ops' = ops + 1 /\ ret'.k \in {"TypeError", "Exception"}) =>
          \A r \in ReceiverObjs, s \in SenderArgs, w \in BOOLEAN, m \in {"TypeError", "Exception"} :
              Connect(r, s, w, m) =>
                  \A x \in SenderArgs : receivers_for(Reg', x, alive').yielded = yields(x)]_vars


C39_SenderIsolation ==
    [][(pc = "iter" /\ ops' = ops) =>
          \A r \in cur.ids, x \in BOOLEAN :
              (SendStep(r, x) /\ (pc' = "idle" \/ Len(cur'.results) > Len(cur.results))) =>
                  \/ r \in Bucket(ANY_ID)
                  \/ /\ r \in Bucket(hashable_identity(cur.sender))
                     /\ <<r, cur.sender>> \notin inherited]_vars

====
